---- MODULE Spec2Model ----
(***************************************************************************)
(* Model of the mits-validator validation pipeline: the ValidationEngine   *)
(* (profile loading, level registry, validate, severity overrides), the    *)
(* result envelope builders, the catalog loaders, and the request          *)
(* throttler of the API.                                                   *)
(***************************************************************************)
EXTENDS Naturals, Sequences, FiniteSets, TLC

VARIABLES
    pc,              \* position of the run: start, ready, validated, done, rejected, async_done
    profile_name,    \* ValidationEngine._profile_name
    profile_files,   \* rules/<version>/profiles/<name>.yaml, by name
    rules,           \* the other resources under rules_dir
    profile_config,  \* ValidationEngine._profile_config
    levels,          \* ValidationEngine._levels (keys, in insertion order)
    request,         \* the arguments of the validate call
    results,         \* list[ValidationResult] returned by validate
    envelope,        \* the response envelope
    escaped,         \* the exception that reached the caller, or "none"
    status,          \* HTTP status of the response, 0 while there is none
    cat_files,       \* rules/<version>/catalogs and schemas
    cat_pc,          \* position of the catalog load
    registry,        \* CatalogLoader.registry (in a run: that of the Semantic level)
    cat_findings,    \* findings returned by load_catalogs
    throttler,       \* RequestThrottler: active_requests, request_queue, _lock
    thr_pc,          \* position of each request in acquire or release
    cache,           \* CacheManager: _redis, the Redis server, _memory_cache
    cache_hist,      \* the calls made on the CacheManager: latest set per key, last get
    limiter,         \* ClientRateLimiter.clients: client id and tokens, oldest first
    limiter_hist,    \* the is_allowed calls made: number of calls, allowed per client
    health,          \* HealthChecker.last_check_time and the clock
    health_out,      \* the last check_system_health call: state of the checks, answer
    alerts,          \* AlertManager: active_alerts, alert_history, and the clock
    alert_out        \* the last call on the AlertManager and what it was made on

engineVars == <<pc, profile_name, profile_files, rules, profile_config, levels,
                request, results, envelope, escaped, status>>
catalogVars == <<cat_files, cat_pc, registry, cat_findings>>
vars == <<pc, profile_name, profile_files, rules, profile_config, levels,
          request, results, envelope, escaped, status,
          cat_files, cat_pc, registry, cat_findings,
          throttler, thr_pc, cache, cache_hist, limiter, limiter_hist,
          health, health_out, alerts, alert_out>>
throttlerVars == <<throttler, thr_pc>>
cacheVars == <<cache, cache_hist>>
limiterVars == <<limiter, limiter_hist>>
healthVars == <<health, health_out>>
alertVars == <<alerts, alert_out>>
serviceVars == <<throttlerVars, cacheVars, limiterVars, healthVars, alertVars>>

(***************************************************************************)
(* Bounds of the model.                                                    *)
(***************************************************************************)
MaxLevels == 2

\* RequestThrottler(max_concurrent, max_queue_size) and the requests using it
MaxConcurrent == 2
MaxQueueSize == 1
NumRequests == 5
\* ClientRateLimiter(max_requests, max_clients) and the is_allowed calls of one run
LimiterMaxRequests == 2
LimiterMaxClients == 2
MaxCalls == 7
\* the clock of the health checker, in steps of 15 seconds
MaxTime == 3
\* the alerts of one run, and the clock of the alert manager in steps of 150 seconds
MaxAlerts == 4
MaxAlertTime == 3

(***************************************************************************)
(* models.py                                                               *)
(***************************************************************************)
FindingLevel == {"error", "warning", "info"}

NoLocation == [kind |-> "None", line |-> 0, column |-> 0, xpath |-> "", value |-> ""]

\* models.Location(line, column): the dataclass, xpath left None
Location(line, column) ==
    [kind |-> "Location", line |-> line, column |-> column, xpath |-> "", value |-> ""]

\* a plain dict {"xpath": ..., "value": ...} handed to Finding(location=...)
DictLocation(xpath, value) ==
    [kind |-> "dict", line |-> 0, column |-> 0, xpath |-> xpath, value |-> value]

Finding(level, code, message, location, rule_ref) ==
    [level |-> level, code |-> code, message |-> message,
     location |-> location, rule_ref |-> rule_ref]

ValidationResult(level, findings) == [level |-> level, findings |-> findings]

\* str.lower() on the strings the model uses
Lower(s) ==
    CASE s = "Text/Plain" -> "text/plain"
      [] s = "ERROR" -> "error"
      [] s = "Warning" -> "warning"
      [] OTHER -> s

Range(f) == {f[i] : i \in DOMAIN f}

\* all sequences over S of length at most n
RECURSIVE SeqsUpTo(_, _)
SeqsUpTo(S, n) ==
    IF n = 0 THEN {<<>>}
    ELSE LET shorter == SeqsUpTo(S, n - 1)
         IN  shorter \cup {Append(q, x) : q \in {r \in shorter : Len(r) = n - 1}, x \in S}

RECURSIVE Concat(_)
Concat(ss) == IF ss = <<>> THEN <<>> ELSE Head(ss) \o Concat(Tail(ss))

RECURSIVE CountIf(_, _)
CountIf(fs, lvl) ==
    IF fs = <<>> THEN 0
    ELSE (IF Head(fs).level = lvl THEN 1 ELSE 0) + CountIf(Tail(fs), lvl)

EmptyMap == [c \in {} |-> ""]

(***************************************************************************)
(* profile_loader.py, profile_models.py                                    *)
(***************************************************************************)
ProfileConfig(name, enabled_levels, severity_overrides) ==
    [name |-> name, enabled_levels |-> enabled_levels,
     severity_overrides |-> severity_overrides]

\* _parse_profile: severities are lower-cased, entries that are no
\* FindingLevel are skipped, enabled_levels is taken as written
ParseProfile(data) ==
    LET raw == data.severity_overrides
        good == {c \in DOMAIN raw : Lower(raw[c]) \in FindingLevel}
    IN  ProfileConfig(data.name, data.enabled_levels, [c \in good |-> Lower(raw[c])])

\* ProfileLoader.load_profile: None when the file does not exist or when
\* reading or parsing it raises
LoadProfileFile(files, name) ==
    IF files[name].state = "ok"
    THEN [found |-> TRUE, config |-> ParseProfile(files[name])]
    ELSE [found |-> FALSE, config |-> ProfileConfig("", <<>>, EmptyMap)]

(***************************************************************************)
(* validation_engine.py: construction                                      *)
(***************************************************************************)
BuiltinDefault ==
    ProfileConfig("default", <<"WellFormed", "XSD", "Schematron", "Semantic">>, EmptyMap)

\* a _load_profile that never tries the version's default profile
LoadProfileSkipDefault(files, name) ==
    LET named == LoadProfileFile(files, name)
    IN  IF named.found THEN named.config ELSE BuiltinDefault

\* ValidationEngine._load_profile
LoadProfile(files, name) ==
    LET named == LoadProfileFile(files, name)
        dflt == LoadProfileFile(files, "default")
    IN  IF named.found THEN named.config
        ELSE IF dflt.found THEN dflt.config
        ELSE BuiltinDefault

\* ValidationEngine._register_levels: the keys of _levels, in insertion order
RegisterLevels(config) ==
    LET on == Range(config.enabled_levels)
    IN  <<"WellFormed">>
        \o (IF "XSD" \in on THEN <<"XSD">> ELSE <<>>)
        \o (IF "Schematron" \in on THEN <<"Schematron">> ELSE <<>>)
        \o (IF "Semantic" \in on THEN <<"Semantic">> ELSE <<>>)

(***************************************************************************)
(* The files of the catalogs of one version                               *)
(***************************************************************************)
\* the data of one entry that has its required keys; aliases defaults to none
EntryWithAliases(code, name, aliases) ==
    [code |-> code, name |-> name, aliases |-> aliases, complete |-> TRUE]

Entry(code, name) == EntryWithAliases(code, name, {})

AbsentCatalog == [state |-> "absent", conforms |-> FALSE, entries |-> <<>>]

BadJsonCatalog == [AbsentCatalog EXCEPT !.state = "badjson"]

\* bytes that are not text in the encoding open() uses
UndecodableCatalog == [AbsentCatalog EXCEPT !.state = "undecodable"]

GoodCatalog ==
    [state |-> "json", conforms |-> TRUE,
     entries |-> <<Entry("A", "first"), Entry("B", "second")>>]

DuplicateCatalog ==
    [state |-> "json", conforms |-> TRUE,
     entries |-> <<Entry("A", "first"), Entry("A", "again"), Entry("B", "second")>>]

\* violates the schema: its second entry lacks the required key name
IncompleteCatalog ==
    [state |-> "json", conforms |-> FALSE,
     entries |-> <<Entry("A", "first"), [code |-> "B", name |-> "", aliases |-> {},
                                    complete |-> FALSE]>>]

\* violates the schema in a way the loader itself does not notice
OddCatalog == [GoodCatalog EXCEPT !.conforms = FALSE]

\* a specialization file holds one object
GoodSpecialization ==
    [state |-> "json", conforms |-> TRUE, entries |-> <<Entry("parking", "Parking")>>]

\* violates the schema: the object lacks the key name
OddSpecialization ==
    [state |-> "json", conforms |-> FALSE,
     entries |-> <<[code |-> "parking", name |-> "", aliases |-> {}, complete |-> FALSE]>>]

\* the orders in which glob can yield the files of S
Orders(S) == {q \in SeqsUpTo(S, Cardinality(S)) : Len(q) = Cardinality(S) /\ Range(q) = S}

Present(fs) == {n \in DOMAIN fs : fs[n].state # "absent"}

(***************************************************************************)
(* catalogs.py: the catalog loader                                         *)
(***************************************************************************)
EnumNames == {"payment-frequency", "refundability", "term-basis"}

SpecNames == {"parking"}

\* CatalogRegistry(): charge_classes by code, enums by name, specializations
\* by name, metadata
EmptyRegistry ==
    [charge_classes |-> EmptyMap, enums |-> EmptyMap, specializations |-> EmptyMap,
     metadata |-> ""]

\* f with key k set to v (dict assignment)
Put(f, k, v) == [x \in DOMAIN f \cup {k} |-> IF x = k THEN v ELSE f[x]]

CatalogFinding(level, code, message) ==
    Finding(level, code, message, NoLocation, "internal://CatalogLoader")

\* a loop over the entries in which a later entry replaces an earlier one with
\* the same code
RECURSIVE WalkEntriesLastWins(_, _, _, _, _)
WalkEntriesLastWins(entries, seen, kept, findings, what) ==
    IF entries = <<>> THEN [kept |-> kept, findings |-> findings, raised |-> FALSE]
    ELSE LET e == Head(entries)
         IN  IF e.code \in seen
             THEN WalkEntriesLastWins(Tail(entries), seen,
                                      [i \in DOMAIN kept |->
                                          IF kept[i].code = e.code THEN e ELSE kept[i]],
                                      Append(findings,
                                             Finding("error", "CATALOG:DUPLICATE_CODE",
                                                     "Duplicate " \o what \o ": " \o e.code,
                                                     NoLocation, "internal://CatalogLoader")),
                                      what)
             ELSE IF ~e.complete
             THEN [kept |-> kept, findings |-> findings, raised |-> TRUE]
             ELSE WalkEntriesLastWins(Tail(entries), seen \cup {e.code}, Append(kept, e),
                                      findings, what)

\* the loop over the entries of one catalog file: an entry whose code was seen
\* is reported and skipped; CatalogEntry(entry_data) raises KeyError on an
\* entry that lacks a required key, which ends the loop
RECURSIVE WalkEntries(_, _, _, _, _)
WalkEntries(entries, seen, kept, findings, what) ==
    IF entries = <<>> THEN [kept |-> kept, findings |-> findings, raised |-> FALSE]
    ELSE LET e == Head(entries)
         IN  IF e.code \in seen
             THEN WalkEntries(Tail(entries), seen, kept,
                              Append(findings,
                                     CatalogFinding("error", "CATALOG:DUPLICATE_CODE",
                                                    "Duplicate " \o what \o ": " \o e.code)),
                              what)
             ELSE IF ~e.complete
             THEN [kept |-> kept, findings |-> findings, raised |-> TRUE]
             ELSE WalkEntries(Tail(entries), seen \cup {e.code}, Append(kept, e),
                              findings, what)

\* CatalogLoader._load_charge_classes: entries go into the registry as the
\* loop meets them
LoadChargeClasses(reg, files) ==
    LET f == files.charge IN
    IF f.state = "absent"
    THEN [reg |-> reg,
          findings |-> << CatalogFinding("warning", "CATALOG:FILE_MISSING",
                                         "Charge classes file not found") >>]
    ELSE IF f.state = "undecodable"
    THEN [reg |-> reg,
          findings |-> << CatalogFinding("error", "ENGINE:LEVEL_CRASH",
                                         "Error loading charge classes") >>]
    ELSE IF f.state = "badjson" \/ files.charge_schema = "broken"
    THEN [reg |-> reg,
          findings |-> << CatalogFinding("error", "CATALOG:INVALID_JSON",
                                         "Invalid JSON in charge classes file") >>]
    ELSE IF files.charge_schema = "ok" /\ ~f.conforms
    THEN [reg |-> reg,
          findings |-> << CatalogFinding("error", "CATALOG:SCHEMA_VALIDATION_ERROR",
                                         "Charge classes schema validation failed") >>]
    ELSE LET w == WalkEntries(f.entries, {}, <<>>, <<>>, "charge class code")
             codes == {w.kept[i].code : i \in DOMAIN w.kept}
             cc == [c \in DOMAIN reg.charge_classes \cup codes |->
                      IF c \in codes
                      THEN w.kept[CHOOSE i \in DOMAIN w.kept : w.kept[i].code = c]
                      ELSE reg.charge_classes[c]]
         IN  [reg |-> [reg EXCEPT !.charge_classes = cc],
              findings |-> w.findings \o
                  (IF w.raised
                   THEN << CatalogFinding("error", "ENGINE:LEVEL_CRASH",
                                          "Error loading charge classes") >>
                   ELSE <<>>)]

\* the body of the loop of _load_enums for one enum file; only JSONDecodeError
\* and ValidationError have handlers of their own, so a file whose bytes open()
\* cannot decode ends in the handler for Exception
LoadEnumFile(reg, files, enum_name) ==
    LET f == files.enums[enum_name] IN
    IF f.state = "undecodable"
    THEN [reg |-> reg,
          findings |-> << CatalogFinding("error", "ENGINE:LEVEL_CRASH",
                                         "Error loading enum " \o enum_name) >>]
    ELSE IF f.state = "badjson"
    THEN [reg |-> reg,
          findings |-> << CatalogFinding("error", "CATALOG:INVALID_JSON",
                                         "Invalid JSON in " \o enum_name) >>]
    ELSE IF files.enum_schema = "ok" /\ ~f.conforms
    THEN [reg |-> reg,
          findings |-> << CatalogFinding("error", "CATALOG:SCHEMA_VALIDATION_ERROR",
                                         "Schema validation failed for " \o enum_name) >>]
    ELSE LET w == WalkEntries(f.entries, {}, <<>>, <<>>, "enum code in " \o enum_name)
         IN  IF w.raised
             THEN [reg |-> reg,
                   findings |-> Append(w.findings,
                                       CatalogFinding("error", "ENGINE:LEVEL_CRASH",
                                                      "Error loading enum " \o enum_name))]
             ELSE [reg |-> [reg EXCEPT !.enums = Put(reg.enums, enum_name, w.kept)],
                   findings |-> w.findings]

\* the loop of _load_enums over the files enums_dir.glob yields, in that order
RECURSIVE LoadEnumFiles(_, _, _)
LoadEnumFiles(reg, files, order) ==
    IF order = <<>> THEN [reg |-> reg, findings |-> <<>>]
    ELSE LET one == LoadEnumFile(reg, files, Head(order))
             rest == LoadEnumFiles(one.reg, files, Tail(order))
         IN  [reg |-> rest.reg, findings |-> one.findings \o rest.findings]

\* CatalogLoader._load_enums; reading a schema file that is not JSON raises
\* before the loop starts
LoadEnums(reg, files, order) ==
    IF ~files.enums_dir
    THEN [reg |-> reg, raised |-> FALSE,
          findings |-> << CatalogFinding("warning", "CATALOG:DIRECTORY_MISSING",
                                         "Enums directory not found") >>]
    ELSE IF files.enum_schema = "broken"
    THEN [reg |-> reg, raised |-> TRUE, findings |-> <<>>]
    ELSE LET r == LoadEnumFiles(reg, files, order)
         IN  [reg |-> r.reg, raised |-> FALSE, findings |-> r.findings]

\* the body of the loop of _load_specializations for one file
LoadSpecFile(reg, files, spec_name) ==
    LET f == files.specs[spec_name] IN
    IF f.state = "undecodable"
    THEN [reg |-> reg,
          findings |-> << CatalogFinding("error", "ENGINE:LEVEL_CRASH",
                                         "Error loading specialization " \o spec_name) >>]
    ELSE IF f.state = "badjson" \/ files.spec_schemas[spec_name] = "broken"
    THEN [reg |-> reg,
          findings |-> << CatalogFinding("error", "CATALOG:INVALID_JSON",
                                         "Invalid JSON in " \o spec_name) >>]
    ELSE IF files.spec_schemas[spec_name] = "ok" /\ ~f.conforms
    THEN [reg |-> reg,
          findings |-> << CatalogFinding("error", "CATALOG:SCHEMA_VALIDATION_ERROR",
                                         "Schema validation failed for " \o spec_name) >>]
    ELSE [reg |-> [reg EXCEPT !.specializations =
                       Put(reg.specializations, spec_name, f.entries)],
          findings |-> <<>>]

RECURSIVE LoadSpecFiles(_, _, _)
LoadSpecFiles(reg, files, order) ==
    IF order = <<>> THEN [reg |-> reg, findings |-> <<>>]
    ELSE LET one == LoadSpecFile(reg, files, Head(order))
             rest == LoadSpecFiles(one.reg, files, Tail(order))
         IN  [reg |-> rest.reg, findings |-> one.findings \o rest.findings]

\* CatalogLoader._load_specializations
LoadSpecializations(reg, files, order) ==
    IF ~files.specs_dir
    THEN [reg |-> reg,
          findings |-> << CatalogFinding("warning", "CATALOG:DIRECTORY_MISSING",
                                         "Item specializations directory not found") >>]
    ELSE LoadSpecFiles(reg, files, order)

\* CatalogLoader.load_catalogs, on the loader's registry reg; eorder and
\* sorder are the orders in which glob yields the enum and specialization files
LoadCatalogs(reg, files, eorder, sorder) ==
    IF ~files.version_dir
    THEN [reg |-> reg,
          findings |-> << CatalogFinding("error", "CATALOG:VERSION_NOT_FOUND",
                                         "MITS version not found") >>]
    ELSE LET c == LoadChargeClasses(reg, files)
             e == LoadEnums(c.reg, files, eorder)
             s == LoadSpecializations(e.reg, files, sorder)
         IN  IF e.raised
             THEN [reg |-> e.reg,
                   findings |-> c.findings \o e.findings \o
                       << CatalogFinding("error", "ENGINE:LEVEL_CRASH",
                                         "Catalog loading crashed") >>]
             ELSE [reg |-> [s.reg EXCEPT !.metadata = "mits-5.0"],
                   findings |-> c.findings \o e.findings \o s.findings]

(***************************************************************************)
(* The stage validators                                                    *)
(***************************************************************************)
\* WellFormedValidator.validate
WellFormedValidate(doc, content_type) ==
    LET suspicious ==
            IF Lower(content_type) \in {"application/octet-stream", "text/plain"}
            THEN << Finding("warning", "WELLFORMED:SUSPICIOUS_CONTENT_TYPE",
                            "Content type '" \o content_type \o "' may not be XML",
                            NoLocation, "internal://WellFormed") >>
            ELSE <<>>
        parse ==
            IF doc.wellformed THEN <<>>
            ELSE << Finding("error", "WELLFORMED:PARSE_ERROR",
                            "XML parsing failed: " \o doc.parse_error,
                            IF doc.line # 0 THEN Location(doc.line, doc.column)
                            ELSE NoLocation,
                            "internal://WellFormed") >>
    IN  ValidationResult("WellFormed", suspicious \o parse)

\* XSDValidator._load_schema and XSDValidator.validate
XSDValidate(doc, xsd) ==
    ValidationResult("XSD",
        IF xsd # "ok"
        THEN << Finding("info", "XSD:SCHEMA_MISSING",
                        "XSD schema not available for validation",
                        NoLocation, "internal://XSD") >>
        ELSE IF ~doc.wellformed
        THEN << Finding("error", "XSD:PARSE_ERROR",
                        "XML parsing failed: " \o doc.parse_error,
                        NoLocation, "internal://XSD") >>
        ELSE IF ~doc.schema_valid
        THEN << Finding("error", "XSD:VALIDATION_ERROR",
                        "XML does not conform to XSD schema",
                        NoLocation, "internal://XSD") >>
        ELSE <<>>)

\* SchematronValidator._check_rules and SchematronValidator.validate
SchematronValidate(doc, rules_available) ==
    ValidationResult("Schematron",
        IF ~rules_available
        THEN << Finding("info", "SCHEMATRON:NO_RULES_LOADED",
                        "No Schematron rules available for validation",
                        NoLocation, "internal://Schematron") >>
        ELSE IF ~doc.wellformed
        THEN << Finding("error", "SCHEMATRON:RULE_FAILURE",
                        "XML parsing failed during Schematron validation: "
                            \o doc.parse_error,
                        NoLocation, "internal://Schematron") >>
        ELSE <<>>)

\* SemanticValidator._validate_charge_classifications
ValidateChargeClassifications(doc, charge_classes) ==
    IF charge_classes = {} THEN <<>>
    ELSE IF doc.charge # "" /\ doc.charge \notin charge_classes
    THEN << Finding("error", "SEMANTIC:INVALID_CHARGE_CLASS",
                    "Charge classification '" \o doc.charge
                        \o "' is not valid according to catalog",
                    DictLocation("/ChargeClassification", doc.charge),
                    "semantic://charge-classification") >>
    ELSE <<>>

\* the check of one element value against the enum enum_name, shared by
\* _validate_payment_frequencies, _validate_refundability and
\* _validate_term_basis: codes and aliases of the enum's entries are valid
ValidateEnumValue(value, reg, enum_name, code, what, rule_ref) ==
    IF enum_name \notin DOMAIN reg.enums \/ reg.enums[enum_name] = <<>> THEN <<>>
    ELSE LET enum == reg.enums[enum_name]
             valid_codes == {enum[i].code : i \in DOMAIN enum}
                              \cup UNION {enum[i].aliases : i \in DOMAIN enum}
         IN  IF value # "" /\ value \notin valid_codes
             THEN << Finding("error", code,
                             what \o " '" \o value \o "' is not valid according to catalog",
                             DictLocation("/" \o what, value), rule_ref) >>
             ELSE <<>>

\* SemanticValidator._validate_payment_frequencies
ValidatePaymentFrequencies(doc, reg) ==
    ValidateEnumValue(doc.payment_frequency, reg, "payment-frequency",
                      "SEMANTIC:INVALID_PAYMENT_FREQUENCY", "Payment frequency",
                      "semantic://payment-frequency")

\* SemanticValidator._validate_refundability
ValidateRefundability(doc, reg) ==
    ValidateEnumValue(doc.refundability, reg, "refundability",
                      "SEMANTIC:INVALID_REFUNDABILITY", "Refundability",
                      "semantic://refundability")

\* SemanticValidator._validate_term_basis
ValidateTermBasis(doc, reg) ==
    ValidateEnumValue(doc.term_basis, reg, "term-basis",
                      "SEMANTIC:INVALID_TERM_BASIS", "Term basis",
                      "semantic://term-basis")

\* SemanticValidator._validate_business_logic, for the one charge offer item
\* of the document
ValidateBusinessLogic(doc) ==
    (IF doc.charge \in {"Rent", "RENT"} /\ doc.requirement = "Optional"
     THEN << Finding("warning", "SEMANTIC:INCONSISTENT_RENT_REQUIREMENT",
                     "Rent charges should typically be Mandatory, not Optional",
                     DictLocation("/ChargeOfferItem", ""), "semantic://business-logic") >>
     ELSE <<>>)
    \o
    (IF doc.charge \in {"Deposit", "DEPOSIT"}
           /\ doc.payment_frequency \notin {"", "OneTime"}
     THEN << Finding("warning", "SEMANTIC:INCONSISTENT_DEPOSIT_FREQUENCY",
                     "Deposit charges should typically be OneTime payments",
                     DictLocation("/ChargeOfferItem", ""), "semantic://business-logic") >>
     ELSE <<>>)

\* SemanticValidator._load_catalogs: the registry of a new CatalogLoader after
\* load_catalogs, whose findings are dropped. load_catalogs handles every
\* exception itself and the registry object is truthy, so _catalogs_loaded is
\* always set; the registry does not depend on the order glob yields the files
SemanticLoadCatalogs(catalogs) ==
    LoadCatalogs(EmptyRegistry, catalogs,
                 CHOOSE o \in Orders(Present(catalogs.enums)) : TRUE,
                 CHOOSE o \in Orders(Present(catalogs.specs)) : TRUE).reg

\* SemanticValidator.validate
SemanticValidate(doc, catalogs) ==
    LET reg == SemanticLoadCatalogs(catalogs) IN
    ValidationResult("Semantic",
        IF ~doc.wellformed
        THEN << Finding("error", "SEMANTIC:XML_PARSE_ERROR",
                        "Failed to parse XML for semantic validation: "
                            \o doc.parse_error,
                        NoLocation, "internal://Semantic") >>
        ELSE ValidateChargeClassifications(doc, DOMAIN reg.charge_classes)
             \o ValidatePaymentFrequencies(doc, reg)
             \o ValidateRefundability(doc, reg)
             \o ValidateTermBasis(doc, reg)
             \o ValidateBusinessLogic(doc))

\* validator.validate(content[, content_type]) of the registered level
RunLevel(level_name, req, res) ==
    CASE level_name = "WellFormed" -> WellFormedValidate(req.doc, req.content_type)
      [] level_name = "XSD" -> XSDValidate(req.doc, res.xsd)
      [] level_name = "Schematron" -> SchematronValidate(req.doc, res.sch)
      [] OTHER -> SemanticValidate(req.doc, res.catalogs)

(***************************************************************************)
(* async_validation.py                                                     *)
(***************************************************************************)
\* AsyncValidationEngine.validate_async: _parse_xml_async raises ValueError
\* on a document that does not parse, which the handler of validate_async
\* turns into one finding; the four level coroutines return no findings
ValidateAsync(doc) ==
    ValidationResult("Async",
        IF ~doc.wellformed
        THEN << Finding("error", "ENGINE:ASYNC_VALIDATION_FAILED",
                        "Async validation failed: Failed to parse XML: Invalid XML syntax: "
                            \o doc.parse_error,
                        NoLocation, "") >>
        ELSE <<>>)

(***************************************************************************)
(* validation_engine.py: validate                                          *)
(***************************************************************************)
\* mutant: every finding of the result is touched, not only those whose code
\* is a key of the override map
ApplySeverityOverridesUnmatched(config, findings) ==
    IF DOMAIN config.severity_overrides = {} THEN findings
    ELSE [i \in DOMAIN findings |->
            IF findings[i].code \in DOMAIN config.severity_overrides
            THEN [findings[i] EXCEPT !.level = config.severity_overrides[findings[i].code]]
            ELSE [findings[i] EXCEPT !.level = "warning"]]

\* mutant: an overridden copy of each matching finding is appended and the
\* original is left in the list
ApplySeverityOverridesAppend(config, findings) ==
    LET hit == SelectSeq(findings, LAMBDA f : f.code \in DOMAIN config.severity_overrides)
    IN  findings \o [i \in DOMAIN hit |->
                       [hit[i] EXCEPT !.level = config.severity_overrides[hit[i].code]]]

\* ValidationEngine._apply_severity_overrides, on the findings of a result
ApplySeverityOverrides(config, findings) ==
    IF DOMAIN config.severity_overrides = {} THEN findings
    ELSE [i \in DOMAIN findings |->
            IF findings[i].code \in DOMAIN config.severity_overrides
            THEN [findings[i] EXCEPT !.level = config.severity_overrides[findings[i].code]]
            ELSE findings[i]]

\* the result substituted for a level whose validate call raised
CrashResult(level_name, exc) ==
    ValidationResult(level_name,
        << Finding("error", "ENGINE:LEVEL_CRASH",
                   "Validation level " \o level_name \o " crashed: " \o exc,
                   NoLocation, "internal://" \o level_name) >>)

\* mutant: the missing level is reported as an error
MissingResultAsError(level_name) ==
    ValidationResult(level_name,
        << Finding("error", "ENGINE:RULES_MISSING",
                   "Validation level " \o level_name \o " not available",
                   NoLocation, "internal://" \o level_name) >>)

\* the result substituted for a level that is not in _levels
MissingResult(level_name) ==
    ValidationResult(level_name,
        << Finding("warning", "ENGINE:RULES_MISSING",
                   "Validation level " \o level_name \o " not available",
                   NoLocation, "internal://" \o level_name) >>)

\* the levels a validate call iterates over
RequestedLevels(config, req) ==
    IF req.levels_given THEN req.levels ELSE config.enabled_levels

\* one iteration of the loop of ValidationEngine.validate
LevelResult(config, registered, level_name, req, res) ==
    IF level_name \in Range(registered)
    THEN IF level_name \in req.raises
         THEN CrashResult(level_name, "boom")
         ELSE LET r == RunLevel(level_name, req, res)
              IN  ValidationResult(r.level, ApplySeverityOverrides(config, r.findings))
    ELSE MissingResult(level_name)

\* mutant: the try block encloses the loop, so the first crash ends the run
ValidateAbortOnCrash(config, registered, req, res) ==
    LET requested == RequestedLevels(config, req)
        crashed == {i \in 1..Len(requested) :
                      requested[i] \in Range(registered) /\ requested[i] \in req.raises}
        last == IF crashed = {} THEN Len(requested)
                ELSE CHOOSE i \in crashed : \A j \in crashed : i <= j
    IN  [i \in 1..last |-> LevelResult(config, registered, requested[i], req, res)]

\* ValidationEngine.validate
Validate(config, registered, req, res) ==
    LET requested == RequestedLevels(config, req)
    IN  [i \in 1..Len(requested) |-> LevelResult(config, registered, requested[i], req, res)]

(***************************************************************************)
(* errors.py, findings.py                                                  *)
(***************************************************************************)
CatalogErrors ==
    {"INTAKE:BOTH_INPUTS", "INTAKE:NO_INPUTS", "INTAKE:TOO_LARGE",
     "INTAKE:UNACCEPTABLE_CONTENT_TYPE", "INTAKE:INVALID_URL",
     "INTAKE:UNSUPPORTED_MEDIA_TYPE", "WELLFORMED:PARSE_ERROR",
     "WELLFORMED:UNEXPECTED_ERROR", "XSD:VALIDATION_ERROR", "XSD:PARSE_ERROR",
     "XSD:XML_PARSE_ERROR", "XSD:SCHEMA_PARSE_ERROR", "ENGINE:LEVEL_CRASH",
     "NETWORK:TIMEOUT", "NETWORK:CONNECTION_ERROR", "NETWORK:HTTP_STATUS",
     "NETWORK:REQUEST_ERROR", "NETWORK:FETCH_ERROR", "NETWORK:DNS_ERROR",
     "NETWORK:TOO_LARGE_DURING_STREAM", "CATALOG:VERSION_NOT_FOUND",
     "CATALOG:INVALID_JSON", "CATALOG:SCHEMA_VALIDATION_ERROR",
     "CATALOG:DUPLICATE_CODE", "SCHEMATRON:RULE_FAILURE",
     "SCHEMATRON:VALIDATION_ERROR", "SCHEMATRON:XML_PARSE_ERROR",
     "SCHEMATRON:RULES_PARSE_ERROR", "SEMANTIC:ENUM_UNKNOWN",
     "SEMANTIC:LIMIT_EXCEEDED", "SEMANTIC:INCONSISTENT_TOTALS",
     "SEMANTIC:INVALID_CHARGE_CLASS", "SEMANTIC:INVALID_PAYMENT_FREQUENCY",
     "SEMANTIC:INVALID_REFUNDABILITY", "SEMANTIC:INVALID_TERM_BASIS",
     "SEMANTIC:XML_PARSE_ERROR", "ENGINE:RESOURCE_LOAD_FAILED"}

CatalogWarnings ==
    {"WELLFORMED:SUSPICIOUS_CONTENT_TYPE", "XSD:SCHEMA_MISSING",
     "SCHEMATRON:RULES_MISSING", "ENGINE:RULES_MISSING", "CATALOG:FILE_MISSING",
     "CATALOG:DIRECTORY_MISSING", "SEMANTIC:INCONSISTENT_RENT_REQUIREMENT",
     "SEMANTIC:INCONSISTENT_DEPOSIT_FREQUENCY"}

CatalogInfos ==
    {"URL:INTAKE_ACKNOWLEDGED", "CATALOG:NO_ENUMS", "CATALOG:NO_SPECIALIZATIONS",
     "SCHEMATRON:NO_RULES_LOADED"}

\* the keys of ERROR_CATALOG
ERROR_CATALOG == CatalogErrors \cup CatalogWarnings \cup CatalogInfos

\* ERROR_CATALOG[code].severity.value
CatalogSeverity(code) ==
    IF code \in CatalogErrors THEN "error"
    ELSE IF code \in CatalogWarnings THEN "warning"
    ELSE "info"

\* findings.create_finding(code, message): a finding dict; an unknown code
\* falls back to severity error
CreateFinding(code, message) ==
    IF code \notin ERROR_CATALOG
    THEN Finding("error", code, message, NoLocation, "internal://Unknown")
    ELSE Finding(CatalogSeverity(code), code, message, NoLocation, "internal://intake")

(***************************************************************************)
(* The result envelope                                                     *)
(***************************************************************************)
NoEnvelope ==
    [kind |-> "none", profile |-> "", levels_available |-> <<>>,
     levels_executed |-> <<>>, valid |-> FALSE, errors |-> 0, warnings |-> 0,
     findings |-> <<>>]

\* the dict build_v1_envelope makes of one Finding: the location entry is
\* read from the attributes line, column and xpath
FindingDict(f) ==
    [f EXCEPT !.location =
        IF f.location.kind = "None" THEN NoLocation
        ELSE [kind |-> "dict", line |-> f.location.line, column |-> f.location.column,
              xpath |-> f.location.xpath, value |-> ""]]

\* build_v1_envelope raises AttributeError on a truthy location that has no
\* attribute line: a non-empty dict
EnvelopeRaises(rs) ==
    \E i \in DOMAIN rs : \E j \in DOMAIN rs[i].findings :
        rs[i].findings[j].location.kind = "dict"

\* a build_v1_envelope whose valid also asks for no warnings
BuildV1EnvelopeStrictValid(rs, name) ==
    LET all_findings == Concat([i \in DOMAIN rs |->
                                  [j \in DOMAIN rs[i].findings |-> FindingDict(rs[i].findings[j])]])
        errors == CountIf(all_findings, "error")
        warnings == CountIf(all_findings, "warning")
    IN  [kind |-> "v1", profile |-> name,
         levels_available |-> <<"WellFormed", "XSD", "Schematron", "Semantic">>,
         levels_executed |-> [i \in DOMAIN rs |-> rs[i].level],
         valid |-> (errors = 0 /\ warnings = 0), errors |-> errors, warnings |-> warnings,
         findings |-> all_findings]

\* a build_v1_envelope that lists the findings of severity error before the others
BuildV1EnvelopeErrorsFirst(rs, name) ==
    LET all_findings == Concat([i \in DOMAIN rs |->
                                  [j \in DOMAIN rs[i].findings |-> FindingDict(rs[i].findings[j])]])
        errors == CountIf(all_findings, "error")
        warnings == CountIf(all_findings, "warning")
    IN  [kind |-> "v1", profile |-> name,
         levels_available |-> <<"WellFormed", "XSD", "Schematron", "Semantic">>,
         levels_executed |-> [i \in DOMAIN rs |-> rs[i].level],
         valid |-> (errors = 0), errors |-> errors, warnings |-> warnings,
         findings |-> SelectSeq(all_findings, LAMBDA f : f.level = "error")
                      \o SelectSeq(all_findings, LAMBDA f : f.level # "error")]

\* validation_engine.build_v1_envelope
BuildV1Envelope(rs, name) ==
    LET all_findings == Concat([i \in DOMAIN rs |->
                                  [j \in DOMAIN rs[i].findings |-> FindingDict(rs[i].findings[j])]])
        errors == CountIf(all_findings, "error")
        warnings == CountIf(all_findings, "warning")
    IN  [kind |-> "v1", profile |-> name,
         levels_available |-> <<"WellFormed", "XSD", "Schematron", "Semantic">>,
         levels_executed |-> [i \in DOMAIN rs |-> rs[i].level],
         valid |-> (errors = 0), errors |-> errors, warnings |-> warnings,
         findings |-> all_findings]

\* api._create_error_response
CreateErrorResponse(finding, available) ==
    [kind |-> "error", profile |-> "default", levels_available |-> available,
     levels_executed |-> <<>>, valid |-> FALSE,
     errors |-> IF finding.level = "error" THEN 1 ELSE 0,
     warnings |-> IF finding.level = "warning" THEN 1 ELSE 0,
     findings |-> <<finding>>]

(***************************************************************************)
(* catalog_loader.py: the second catalog loader                            *)
(***************************************************************************)
\* catalog_loader.CatalogRegistry() with the metadata load_catalogs sets:
\* charge_classes by code, enums by name then code, specializations by name
CL_EmptyRegistry ==
    [charge_classes |-> EmptyMap, enums |-> EmptyMap, specializations |-> EmptyMap,
     metadata |-> "mits-5.0"]

CL_Finding(level, code, message) ==
    Finding(level, code, message, NoLocation, "internal://Catalog")

\* _get_schema: None when the schema file is absent or is not JSON
CL_GetSchema(state) == state = "ok"

\* the entries of kept, by code
ByCode(kept) ==
    [c \in {kept[i].code : i \in DOMAIN kept} |->
        kept[CHOOSE i \in DOMAIN kept : kept[i].code = c]]

\* the loop over the entries of one file: entries go into the registry as the
\* loop meets them, and KeyError on an entry that lacks a required key ends it
RECURSIVE CL_WalkEntries(_, _, _, _, _)
CL_WalkEntries(entries, seen, kept, findings, what) ==
    IF entries = <<>> THEN [kept |-> kept, findings |-> findings, raised |-> FALSE]
    ELSE LET e == Head(entries)
         IN  IF e.code \in seen
             THEN CL_WalkEntries(Tail(entries), seen, kept,
                                 Append(findings,
                                        CL_Finding("error", "CATALOG:DUPLICATE_CODE",
                                                   "Duplicate " \o what \o ": " \o e.code)),
                                 what)
             ELSE IF ~e.complete
             THEN [kept |-> kept, findings |-> findings, raised |-> TRUE]
             ELSE CL_WalkEntries(Tail(entries), seen \cup {e.code}, Append(kept, e),
                                 findings, what)

\* catalog_loader.CatalogLoader._load_charge_classes; an exception that is not
\* JSONDecodeError, KeyError or FileNotFoundError leaves the function
CL_LoadChargeClasses(reg, files) ==
    LET f == files.charge IN
    IF ~files.version_dir \/ f.state = "absent"
    THEN [reg |-> reg, raised |-> FALSE,
          findings |-> << CL_Finding("warning", "CATALOG:FILE_MISSING",
                                     "Charge classes file not found") >>]
    ELSE IF f.state = "undecodable"
    THEN [reg |-> reg, raised |-> TRUE, findings |-> <<>>]
    ELSE IF f.state = "badjson"
    THEN [reg |-> reg, raised |-> FALSE,
          findings |-> << CL_Finding("error", "CATALOG:INVALID_JSON",
                                     "Failed to load charge classes") >>]
    ELSE IF CL_GetSchema(files.charge_schema) /\ ~f.conforms
    THEN [reg |-> reg, raised |-> FALSE,
          findings |-> << CL_Finding("error", "CATALOG:SCHEMA_VALIDATION_ERROR",
                                     "Charge classes schema validation failed") >>]
    ELSE LET w == CL_WalkEntries(f.entries, {}, <<>>, <<>>, "charge class code")
             new == ByCode(w.kept)
         IN  [reg |-> [reg EXCEPT !.charge_classes =
                          [c \in DOMAIN reg.charge_classes \cup DOMAIN new |->
                              IF c \in DOMAIN new THEN new[c] ELSE reg.charge_classes[c]]],
              raised |-> FALSE,
              findings |-> w.findings \o
                  (IF w.raised
                   THEN << CL_Finding("error", "CATALOG:INVALID_JSON",
                                      "Failed to load charge classes") >>
                   ELSE <<>>)]

\* catalog_loader.CatalogLoader._load_single_enum
CL_LoadSingleEnum(reg, files, enum_name) ==
    LET f == files.enums[enum_name] IN
    IF f.state = "undecodable"
    THEN [reg |-> reg, raised |-> TRUE, findings |-> <<>>]
    ELSE IF f.state = "badjson"
    THEN [reg |-> reg, raised |-> FALSE,
          findings |-> << CL_Finding("error", "CATALOG:INVALID_JSON",
                                     "Failed to load enum " \o enum_name) >>]
    ELSE IF CL_GetSchema(files.enum_schema) /\ ~f.conforms
    THEN [reg |-> reg, raised |-> FALSE,
          findings |-> << CL_Finding("error", "CATALOG:SCHEMA_VALIDATION_ERROR",
                                     "Enum " \o enum_name \o " schema validation failed") >>]
    ELSE LET w == CL_WalkEntries(f.entries, {}, <<>>, <<>>, "enum code in " \o enum_name)
         IN  [reg |-> [reg EXCEPT !.enums = Put(reg.enums, enum_name, ByCode(w.kept))],
              raised |-> FALSE,
              findings |-> w.findings \o
                  (IF w.raised
                   THEN << CL_Finding("error", "CATALOG:INVALID_JSON",
                                      "Failed to load enum " \o enum_name) >>
                   ELSE <<>>)]

RECURSIVE CL_LoadEnumFiles(_, _, _)
CL_LoadEnumFiles(reg, files, order) ==
    IF order = <<>> THEN [reg |-> reg, raised |-> FALSE, findings |-> <<>>]
    ELSE LET one == CL_LoadSingleEnum(reg, files, Head(order))
             rest == CL_LoadEnumFiles(one.reg, files, Tail(order))
         IN  IF one.raised THEN one
             ELSE [reg |-> rest.reg, raised |-> rest.raised,
                   findings |-> one.findings \o rest.findings]

\* catalog_loader.CatalogLoader._load_enums
CL_LoadEnums(reg, files, order) ==
    IF ~files.enums_dir
    THEN [reg |-> reg, raised |-> FALSE,
          findings |-> << CL_Finding("warning", "CATALOG:DIRECTORY_MISSING",
                                     "Enums directory not found") >>]
    ELSE IF order = <<>>
    THEN [reg |-> reg, raised |-> FALSE,
          findings |-> << CL_Finding("info", "CATALOG:NO_ENUMS",
                                     "No enum files found") >>]
    ELSE CL_LoadEnumFiles(reg, files, order)

\* catalog_loader.CatalogLoader._load_single_specialization: the file holds
\* one object, and ItemSpecialization(data) reads its code and name
CL_LoadSingleSpecialization(reg, files, spec_name) ==
    LET f == files.specs[spec_name] IN
    IF f.state = "undecodable"
    THEN [reg |-> reg, raised |-> TRUE, findings |-> <<>>]
    ELSE IF f.state = "badjson"
    THEN [reg |-> reg, raised |-> FALSE,
          findings |-> << CL_Finding("error", "CATALOG:INVALID_JSON",
                                     "Failed to load specialization " \o spec_name) >>]
    ELSE IF CL_GetSchema(files.spec_schemas[spec_name]) /\ ~f.conforms
    THEN [reg |-> reg, raised |-> FALSE,
          findings |-> << CL_Finding("error", "CATALOG:SCHEMA_VALIDATION_ERROR",
                                     "Specialization " \o spec_name
                                         \o " schema validation failed") >>]
    ELSE IF ~Head(f.entries).complete
    THEN [reg |-> reg, raised |-> FALSE,
          findings |-> << CL_Finding("error", "CATALOG:INVALID_JSON",
                                     "Failed to load specialization " \o spec_name) >>]
    ELSE [reg |-> [reg EXCEPT !.specializations =
                       Put(reg.specializations, spec_name, Head(f.entries))],
          raised |-> FALSE, findings |-> <<>>]

RECURSIVE CL_LoadSpecFiles(_, _, _)
CL_LoadSpecFiles(reg, files, order) ==
    IF order = <<>> THEN [reg |-> reg, raised |-> FALSE, findings |-> <<>>]
    ELSE LET one == CL_LoadSingleSpecialization(reg, files, Head(order))
             rest == CL_LoadSpecFiles(one.reg, files, Tail(order))
         IN  IF one.raised THEN one
             ELSE [reg |-> rest.reg, raised |-> rest.raised,
                   findings |-> one.findings \o rest.findings]

\* catalog_loader.CatalogLoader._load_specializations
CL_LoadSpecializations(reg, files, order) ==
    IF ~files.specs_dir
    THEN [reg |-> reg, raised |-> FALSE,
          findings |-> << CL_Finding("warning", "CATALOG:DIRECTORY_MISSING",
                                     "Specializations directory not found") >>]
    ELSE IF order = <<>>
    THEN [reg |-> reg, raised |-> FALSE,
          findings |-> << CL_Finding("info", "CATALOG:NO_SPECIALIZATIONS",
                                     "No specialization files found") >>]
    ELSE CL_LoadSpecFiles(reg, files, order)

\* catalog_loader.CatalogLoader.load_catalogs: a new registry on every call,
\* and no handler of its own
CL_LoadCatalogs(files, eorder, sorder) ==
    LET c == CL_LoadChargeClasses(CL_EmptyRegistry, files)
        e == CL_LoadEnums(c.reg, files, eorder)
        s == CL_LoadSpecializations(e.reg, files, sorder)
    IN  IF c.raised \/ e.raised \/ s.raised
        THEN [reg |-> CL_EmptyRegistry, raised |-> TRUE, findings |-> <<>>]
        ELSE [reg |-> s.reg, raised |-> FALSE,
              findings |-> c.findings \o e.findings \o s.findings]

(***************************************************************************)
(* Inputs: profile files, resources, documents, requests                   *)
(***************************************************************************)
LevelNames == {"WellFormed", "XSD", "Schematron", "Semantic", "Custom"}

AbsentFile ==
    [state |-> "absent", name |-> "", enabled_levels |-> <<>>,
     severity_overrides |-> EmptyMap]

UnparsableFile == [AbsentFile EXCEPT !.state = "unparsable"]

\* severity_overrides as written in the YAML file
RawOverrides ==
    [c \in {"SCHEMATRON:NO_RULES_LOADED", "ENGINE:LEVEL_CRASH", "ENGINE:RULES_MISSING",
            "WELLFORMED:PARSE_ERROR", "XSD:SCHEMA_MISSING"} |->
        CASE c = "SCHEMATRON:NO_RULES_LOADED" -> "ERROR"
          [] c = "ENGINE:LEVEL_CRASH" -> "Warning"
          [] c = "ENGINE:RULES_MISSING" -> "error"
          [] c = "WELLFORMED:PARSE_ERROR" -> "info"
          [] OTHER -> "fatal"]

CustomFiles ==
    {AbsentFile, UnparsableFile}
    \cup {[state |-> "ok", name |-> "custom", enabled_levels |-> l,
           severity_overrides |-> m] :
            l \in SeqsUpTo(LevelNames, MaxLevels), m \in {EmptyMap, RawOverrides}}

DefaultFiles ==
    {AbsentFile, UnparsableFile,
     [state |-> "ok", name |-> "default", enabled_levels |-> <<"WellFormed", "XSD">>,
      severity_overrides |-> EmptyMap]}

\* rules_dir without the directory of the version
NoCatalogs ==
    [version_dir |-> FALSE, charge |-> AbsentCatalog, charge_schema |-> "absent",
     enums_dir |-> FALSE, enum_schema |-> "absent",
     enums |-> [n \in EnumNames |-> AbsentCatalog],
     specs_dir |-> FALSE, specs |-> [n \in SpecNames |-> AbsentCatalog],
     spec_schemas |-> [n \in SpecNames |-> "absent"]]

\* a version with a charge-classes file only
ChargeOnlyCatalogs ==
    [NoCatalogs EXCEPT
        !.version_dir = TRUE,
        !.charge = [state |-> "json", conforms |-> TRUE,
                    entries |-> <<EntryWithAliases("RENT", "Rent", {"Rent"}),
                                  Entry("PET", "Pet Fee")>>]]

\* a version with charge classes and the three enums, every one with an
\* entry that has an alias
FullCatalogs ==
    [ChargeOnlyCatalogs EXCEPT
        !.enums_dir = TRUE,
        !.enums = [n \in EnumNames |->
                     [state |-> "json", conforms |-> TRUE,
                      entries |->
                        CASE n = "payment-frequency" ->
                               <<EntryWithAliases("Monthly", "Monthly", {"MON"}),
                                 Entry("OneTime", "One time")>>
                          [] n = "refundability" ->
                               <<EntryWithAliases("Refundable", "Refundable", {"REF"})>>
                          [] OTHER ->
                               <<EntryWithAliases("LeaseTerm", "Lease term", {"LT"})>>]]]

\* what rules_dir holds besides the profiles: the XSD schema file, whether
\* any .sch file exists, and the catalog files of the version
Resources ==
    {[xsd |-> "missing", sch |-> FALSE, catalogs |-> NoCatalogs],
     [xsd |-> "broken", sch |-> FALSE, catalogs |-> ChargeOnlyCatalogs],
     [xsd |-> "ok", sch |-> TRUE, catalogs |-> FullCatalogs]}

\* a document with one charge offer item; "" is an element that is absent, and
\* violations is the number of schema constraints a well-formed document
\* violates (schema_valid iff there is none), failed_asserts the number of
\* assertions of the Schematron rules it violates
CleanDoc ==
    [wellformed |-> TRUE, parse_error |-> "", line |-> 0, column |-> 0,
     schema_valid |-> TRUE, violations |-> 0, failed_asserts |-> 0, charge |-> "RENT", requirement |-> "Mandatory",
     payment_frequency |-> "Monthly", refundability |-> "", term_basis |-> ""]

\* a document whose closing tag is missing
MalformedDoc ==
    [CleanDoc EXCEPT !.wellformed = FALSE, !.parse_error = "Premature end of data",
                     !.line = 1, !.column = 12, !.schema_valid = FALSE, !.charge = "",
                     !.requirement = "", !.payment_frequency = ""]

\* every checked field holds an alias of a catalog entry
AliasDoc ==
    [CleanDoc EXCEPT !.charge = "Rent", !.payment_frequency = "MON",
                     !.refundability = "REF", !.term_basis = "LT"]

\* every checked field holds a value no catalog knows
UnknownDoc ==
    [CleanDoc EXCEPT !.charge = "PurpleMonkey", !.payment_frequency = "Fortnightly",
                     !.refundability = "Maybe", !.term_basis = "Whenever"]

Docs ==
    {CleanDoc, MalformedDoc, AliasDoc, UnknownDoc,
     [CleanDoc EXCEPT !.schema_valid = FALSE, !.violations = 1, !.charge = "",
                      !.payment_frequency = ""],
     [CleanDoc EXCEPT !.schema_valid = FALSE, !.violations = 2, !.charge = "",
                      !.payment_frequency = ""],
     [CleanDoc EXCEPT !.requirement = "Optional"],
     [CleanDoc EXCEPT !.failed_asserts = 1]}

ContentTypes == {"application/xml", "Text/Plain"}

\* level lists a caller passes to validate instead of the profile's
CallerLevels == {<<"Semantic", "WellFormed">>, <<"XSD">>}

\* who calls validate: code using the engine as a library, or the endpoint
\* /v1/validate with a file upload or with a url
Sources == {"library", "file", "url"}

NoRequest ==
    [doc |-> CleanDoc, content_type |-> "", levels_given |-> FALSE, levels |-> <<>>,
     raises |-> {}, source |-> ""]

\* the codes api.py passes to _create_error_response
\* the status_code the endpoint passes to _create_error_response with the code
IntakeStatus(code) ==
    CASE code \in {"INTAKE:BOTH_INPUTS", "INTAKE:NO_INPUTS"} -> 400
      [] code = "INTAKE:UNSUPPORTED_MEDIA_TYPE" -> 415
      [] code = "INTAKE:TOO_LARGE" -> 413
      [] code = "INTAKE:INVALID_URL" -> 422
      [] OTHER -> 502

IntakeCodes ==
    {"INTAKE:BOTH_INPUTS", "INTAKE:NO_INPUTS", "INTAKE:UNSUPPORTED_MEDIA_TYPE",
     "INTAKE:TOO_LARGE", "INTAKE:INVALID_URL", "NETWORK:FETCH_ERROR"}

NoCatFiles == [version_dir |-> FALSE]

(***************************************************************************)
(* rate_limiter.py: RequestThrottler                                       *)
(***************************************************************************)
RequestIds == 1..NumRequests

\* RequestThrottler.__init__
NewThrottler == [active_requests |-> 0, request_queue |-> <<>>, lock |-> 0]

\* no throttler is in use
ThrottlerOff ==
    /\ throttler = NewThrottler
    /\ thr_pc = [r \in RequestIds |-> "off"]

(***************************************************************************)
(* cache.py: CacheManager                                                  *)
(***************************************************************************)
\* the prefixes and keys the callers use, and the values they store
CachePrefixes == {"xsd_schema", "schematron_rules"}
CacheKeyNames == {"a"}
CacheValues == {"v1", "v2"}

\* _get_cache_key(prefix, key), kept as the pair it is made of
CacheKeys == [prefix : CachePrefixes, key : CacheKeyNames]

NoEntries == [ck \in CacheKeys |-> "None"]

\* CacheManager.__init__ and initialize: _redis is set when redis_url is given
\* and the server answered the ping; redis_up is whether the server answers now
NewCache(with_redis) ==
    [redis_client |-> with_redis, redis_up |-> with_redis,
     redis |-> NoEntries, memory |-> NoEntries]

NewCacheHist ==
    [latest |-> NoEntries,
     got |-> [called |-> FALSE, value |-> "None", latest |-> "None"]]

\* no cache manager is in use
CacheOff ==
    /\ cache = NewCache(FALSE)
    /\ cache_hist = NewCacheHist

\* CacheManager.get: the value Redis holds when it answers with one,
\* otherwise the value of the memory cache
CacheGetValue(c, ck) ==
    IF c.redis_client /\ c.redis_up /\ c.redis[ck] # "None"
    THEN c.redis[ck]
    ELSE c.memory[ck]

\* CacheManager.set: into Redis, into the memory cache when the call to
\* Redis raises or no Redis is configured (the values stay far below
\* max_memory_mb, so _set_memory_cache evicts nothing)
CacheSetValue(c, ck, v) ==
    IF c.redis_client /\ c.redis_up
    THEN [c EXCEPT !.redis[ck] = v]
    ELSE [c EXCEPT !.memory[ck] = v]

\* CacheManager.delete and clear: the keys in covered leave Redis when it
\* answers, and the memory cache in any case
CacheRemove(c, covered) ==
    [c EXCEPT
        !.redis = IF c.redis_client /\ c.redis_up
                  THEN [ck \in CacheKeys |-> IF ck \in covered THEN "None" ELSE @[ck]]
                  ELSE @,
        !.memory = [ck \in CacheKeys |-> IF ck \in covered THEN "None" ELSE @[ck]]]

\* the keys clear(prefix) covers; prefix "" stands for clear(None)
Covered(prefix) ==
    IF prefix = "" THEN CacheKeys ELSE {ck \in CacheKeys : ck.prefix = prefix}

(***************************************************************************)
(* rate_limiter.py: RateLimiter and ClientRateLimiter                      *)
(***************************************************************************)
ClientIds == {"c1", "c2", "c3"}

\* RateLimiter.__init__: a full bucket
NewRateLimiter(client_id) == [client |-> client_id, tokens |-> LimiterMaxRequests]

\* RateLimiter.is_allowed with no time passed: tokens_to_add = 0
RefilledTokens(tokens) ==
    IF tokens < LimiterMaxRequests THEN tokens ELSE LimiterMaxRequests

RateLimiterAllows(tokens) == RefilledTokens(tokens) >= 1

TokensAfter(tokens) ==
    IF RateLimiterAllows(tokens)
    THEN RefilledTokens(tokens) - 1
    ELSE RefilledTokens(tokens)

TrackedClients(clients) == {clients[i].client : i \in 1..Len(clients)}

\* ClientRateLimiter.is_allowed, get or create: a client not yet tracked
\* gets a new RateLimiter, after the oldest one was removed from a full table
WithClient(clients, client_id) ==
    IF client_id \in TrackedClients(clients)
    THEN clients
    ELSE Append(IF Len(clients) >= LimiterMaxClients THEN Tail(clients) ELSE clients,
                NewRateLimiter(client_id))

\* the tokens of a tracked client
TokensOf(clients, client_id) ==
    LET i == CHOOSE j \in 1..Len(clients) : clients[j].client = client_id
    IN  clients[i].tokens

\* self.clients[client_id].is_allowed(client_id), on the table
ChargeClient(clients, client_id) ==
    [i \in 1..Len(clients) |->
        IF clients[i].client = client_id
        THEN [clients[i] EXCEPT !.tokens = TokensAfter(@)]
        ELSE clients[i]]

NewLimiterHist == [calls |-> 0, allowed |-> [c \in ClientIds |-> 0]]

\* no client rate limiter is in use
LimiterOff ==
    /\ limiter = <<>>
    /\ limiter_hist = NewLimiterHist

(***************************************************************************)
(* health_checks.py: HealthChecker                                         *)
(***************************************************************************)
\* self.check_cache_ttl = 30 seconds, in steps of 15 seconds
check_cache_ttl == 2

\* two of the registered checks, and a name no check is registered under
HealthChecks == {"filesystem", "cache"}
CheckNames == HealthChecks \cup {"unknown"}

\* what a check function does when it is run
CheckOutcomes == {"healthy", "unhealthy", "raises"}

\* last_check_time of a check that was never cached
NeverChecked == 0 - 1

NewHealth == [last_check_time |-> [n \in HealthChecks |-> NeverChecked], now |-> 0]

NewHealthOut ==
    [called |-> FALSE, requested |-> {},
     outcome |-> [n \in HealthChecks |-> "healthy"],
     checks |-> [n \in CheckNames |-> "none"],
     overall_healthy |-> TRUE, raised |-> 0]

\* no health checker is in use
HealthOff ==
    /\ health = NewHealth
    /\ health_out = NewHealthOut

\* HealthChecker._is_check_cached
IsCheckCached(h, n) ==
    /\ h.last_check_time[n] # NeverChecked
    /\ h.now - h.last_check_time[n] < check_cache_ttl

\* the entry check_health stores in results["checks"] for one requested name:
\* _get_cached_result answers healthy for a cached check, a check that is
\* run answers for itself, an exception and an unknown name are unhealthy
CheckEntry(h, n, outcome) ==
    IF n \notin HealthChecks THEN "unhealthy"
    ELSE IF IsCheckCached(h, n) THEN "healthy"
    ELSE IF outcome[n] = "healthy" THEN "healthy"
    ELSE "unhealthy"

\* whether the loop of check_health sets overall_healthy to False at name n
LowersOverall(h, n, outcome) ==
    IF n \notin HealthChecks THEN TRUE
    ELSE IF IsCheckCached(h, n) THEN FALSE
    ELSE outcome[n] # "healthy"

\* _cache_result is reached when the check was run and returned
CachesResult(h, n, outcome) ==
    /\ n \in HealthChecks
    /\ ~IsCheckCached(h, n)
    /\ outcome[n] # "raises"

\* HealthChecker.check_health(checks), the names of checks taken one by one
CheckHealth(h, requested, outcome) ==
    [checks |-> [n \in CheckNames |->
                    IF n \in requested THEN CheckEntry(h, n, outcome) ELSE "none"],
     overall_healthy |-> \A n \in requested : ~LowersOverall(h, n, outcome),
     last_check_time |-> [n \in HealthChecks |->
                            IF n \in requested /\ CachesResult(h, n, outcome)
                            THEN h.now
                            ELSE h.last_check_time[n]]]

(***************************************************************************)
(* alerting.py: AlertManager                                               *)
(***************************************************************************)
\* self.alert_cooldown = 300 seconds, in steps of 150 seconds
alert_cooldown == 2

\* two of the alert types check_alerts triggers
AlertTypes == {"HIGH_ERROR_RATE", "HIGH_MEMORY_USAGE"}

\* active_alerts holds, per type, the alert object that is also in
\* alert_history: kept as its position in the history, 0 for no entry
NewAlerts == [active |-> [t \in AlertTypes |-> 0], history |-> <<>>, now |-> 0]

NewAlertOut == [op |-> "none", alert_type |-> "", in_cooldown |-> FALSE, history_len |-> 0]

\* no alert manager is in use
AlertsOff ==
    /\ alerts = NewAlerts
    /\ alert_out = NewAlertOut

\* _create_alert: the type is active and its alert is younger than the cooldown
InCooldown(a, t) ==
    /\ a.active[t] # 0
    /\ a.now - a.history[a.active[t]].timestamp < alert_cooldown

\* AlertManager._create_alert
CreateAlertOn(a, t) ==
    IF InCooldown(a, t)
    THEN a
    ELSE [a EXCEPT
            !.history = Append(@, [alert_type |-> t, timestamp |-> a.now,
                                   resolved |-> FALSE]),
            !.active[t] = Len(a.history) + 1]

\* AlertManager.resolve_alert
ResolveAlertOn(a, t) ==
    IF a.active[t] # 0
    THEN [a EXCEPT !.history[a.active[t]].resolved = TRUE, !.active[t] = 0]
    ELSE a

\* AlertManager.get_alert_stats
AlertStats(a) ==
    LET total_alerts == Len(a.history)
        active_alerts == Cardinality({t \in AlertTypes : a.active[t] # 0})
    IN  [total_alerts |-> total_alerts,
         active_alerts |-> active_alerts,
         resolved_alerts |-> total_alerts - active_alerts]

\* AlertManager.get_active_alerts, as positions in the history
ActiveAlerts(a) == {a.active[t] : t \in AlertTypes} \ {0}

(***************************************************************************)
(* The service objects together                                            *)
(***************************************************************************)
\* no service object besides the pipeline is in use
ServicesOff == ThrottlerOff /\ CacheOff /\ LimiterOff /\ HealthOff /\ AlertsOff

\* the body of acquire, run by request r once it holds _lock: a slot, or a
\* place in the queue (put returns at once and acquire returns True), or the
\* wait for queue space inside wait_for, with _lock still held
AcquireBody(r) ==
    IF throttler.active_requests < MaxConcurrent
    THEN /\ throttler' = [throttler EXCEPT !.active_requests = @ + 1, !.lock = 0]
         /\ thr_pc' = [thr_pc EXCEPT ![r] = "granted"]
    ELSE IF Len(throttler.request_queue) < MaxQueueSize
    THEN /\ throttler' = [throttler EXCEPT !.request_queue = Append(@, r), !.lock = 0]
         /\ thr_pc' = [thr_pc EXCEPT ![r] = "granted"]
    ELSE /\ throttler' = [throttler EXCEPT !.lock = r]
         /\ thr_pc' = [thr_pc EXCEPT ![r] = "put_wait"]

\* the body of release, run by request r once it holds _lock
ReleaseBody(r) ==
    LET lowered == IF throttler.active_requests = 0 THEN 0
                   ELSE throttler.active_requests - 1
    IN  /\ throttler' =
             IF throttler.request_queue # <<>>
             THEN [throttler EXCEPT !.active_requests = lowered + 1,
                                    !.request_queue = Tail(@), !.lock = 0]
             ELSE [throttler EXCEPT !.active_requests = lowered, !.lock = 0]
        /\ thr_pc' = [thr_pc EXCEPT ![r] = "idle"]

(***************************************************************************)
(* The run of one request                                                  *)
(***************************************************************************)
Init ==
    /\ pc = "start"
    /\ profile_name \in {"default", "custom"}
    /\ \E d \in DefaultFiles, c \in CustomFiles :
          /\ profile_name = "default" => c = AbsentFile
          /\ profile_files = [n \in {"default", "custom"} |->
                                IF n = "default" THEN d ELSE c]
    /\ rules \in Resources
    /\ profile_config = BuiltinDefault
    /\ levels = <<>>
    /\ request = NoRequest
    /\ results = <<>>
    /\ envelope = NoEnvelope
    /\ escaped = "none"
    /\ status = 0
    /\ cat_files = NoCatFiles
    /\ cat_pc = "off"
    /\ registry = EmptyRegistry
    /\ cat_findings = <<>>
    /\ ServicesOff

\* ValidationEngine.__init__
Construct ==
    /\ pc = "start"
    /\ profile_config' = LoadProfile(profile_files, profile_name)
    /\ levels' = RegisterLevels(profile_config')
    /\ pc' = "ready"
    /\ UNCHANGED <<profile_name, profile_files, rules, request, results, envelope,
                   escaped, status>>
    /\ UNCHANGED <<catalogVars, serviceVars>>

\* engine.validate(content, levels, content_type). The first validate call of
\* the Semantic level runs _load_catalogs, which fills the registry of the
\* level's CatalogLoader, empty since the construction of the engine
ValidateStep ==
    /\ pc = "ready"
    /\ \E doc \in Docs, ct \in ContentTypes, given \in BOOLEAN :
       \E lv \in IF given THEN CallerLevels ELSE {<<>>} :
       \E rs \in SUBSET (Range(levels) \cap
                          Range(IF given THEN lv ELSE profile_config.enabled_levels)) :
       \E src \in IF given THEN {"library"} ELSE Sources :
          /\ request' = [doc |-> doc, content_type |-> ct, levels_given |-> given,
                         levels |-> lv, raises |-> rs, source |-> src]
          /\ results' = Validate(profile_config, levels, request', rules)
          /\ registry' =
                IF "Semantic" \in (Range(RequestedLevels(profile_config, request'))
                                     \cap Range(levels)) \ rs
                THEN SemanticLoadCatalogs(rules.catalogs)
                ELSE registry
    /\ pc' = "validated"
    /\ UNCHANGED <<profile_name, profile_files, rules, profile_config, levels,
                   envelope, escaped, status>>
    /\ UNCHANGED <<cat_files, cat_pc, cat_findings, serviceVars>>

\* build_v1_envelope(request, results, profile or "default", duration_ms),
\* called by a library user, by _validate_file_upload (no handler around it:
\* an exception leaves the endpoint and the server answers 500) or by
\* _validate_url (inside the try whose handler answers NETWORK:FETCH_ERROR)
BuildEnvelope ==
    /\ pc = "validated"
    /\ IF EnvelopeRaises(results)
       THEN IF request.source = "url"
            THEN /\ escaped' = escaped
                 /\ envelope' = CreateErrorResponse(
                                    CreateFinding("NETWORK:FETCH_ERROR",
                                                  "Failed to fetch URL: 'dict' object has no attribute 'line'"),
                                    RegisterLevels(LoadProfile(profile_files, "default")))
                 /\ status' = 502
            ELSE /\ escaped' = "AttributeError"
                 /\ envelope' = envelope
                 /\ status' = IF request.source = "file" THEN 500 ELSE 0
       ELSE /\ escaped' = escaped
            /\ envelope' = BuildV1Envelope(results, profile_name)
            /\ status' = IF request.source = "library" THEN 0 ELSE 200
    /\ pc' = "done"
    /\ UNCHANGED <<profile_name, profile_files, rules, profile_config, levels,
                   request, results>>
    /\ UNCHANGED <<catalogVars, serviceVars>>

\* an intake check of api.validate fails before any engine runs
IntakeError ==
    /\ pc = "start"
    /\ \E code \in IntakeCodes :
          /\ envelope' = CreateErrorResponse(
                            CreateFinding(code, "intake failed"),
                            RegisterLevels(LoadProfile(profile_files, "default")))
          /\ status' = IntakeStatus(code)
    /\ pc' = "rejected"
    /\ UNCHANGED <<profile_name, profile_files, rules, profile_config, levels,
                   request, results, escaped>>
    /\ UNCHANGED <<catalogVars, serviceVars>>

\* get_async_validation_engine().validate_async(request, validation_id, profile)
ValidateAsyncStep ==
    /\ pc = "start"
    /\ \E doc \in Docs :
          /\ request' = [NoRequest EXCEPT !.doc = doc]
          /\ results' = << ValidateAsync(doc) >>
    /\ pc' = "async_done"
    /\ UNCHANGED <<profile_name, profile_files, rules, profile_config, levels,
                   envelope, escaped, status>>
    /\ UNCHANGED <<catalogVars, serviceVars>>

Next == Construct \/ ValidateStep \/ BuildEnvelope \/ IntakeError \/ ValidateAsyncStep

Spec == Init /\ [][Next]_vars

(***************************************************************************)
(* The catalog files of one version and one load_catalogs call             *)
(***************************************************************************)
CatalogFileSets ==
    {NoCatalogs}
    \cup
    {[version_dir |-> TRUE, charge |-> c, charge_schema |-> cs,
      enums_dir |-> TRUE, enum_schema |-> es, enums |-> en,
      specs_dir |-> TRUE, specs |-> sp, spec_schemas |-> ss] :
        c \in {AbsentCatalog, BadJsonCatalog, DuplicateCatalog, IncompleteCatalog,
                OddCatalog},
        cs \in {"absent", "ok"},
        es \in {"absent", "ok", "broken"},
        en \in [EnumNames -> {AbsentCatalog, BadJsonCatalog, UndecodableCatalog,
                              GoodCatalog, DuplicateCatalog, IncompleteCatalog}],
        sp \in [SpecNames -> {AbsentCatalog, BadJsonCatalog, GoodSpecialization,
                              OddSpecialization}],
        ss \in [SpecNames -> {"absent", "ok"}]}

InitCatalog ==
    /\ pc = "off"
    /\ profile_name = "default"
    /\ profile_files = [n \in {"default", "custom"} |-> AbsentFile]
    /\ rules = [xsd |-> "missing", sch |-> FALSE, catalogs |-> NoCatalogs]
    /\ profile_config = BuiltinDefault
    /\ levels = <<>>
    /\ request = NoRequest
    /\ results = <<>>
    /\ envelope = NoEnvelope
    /\ escaped = "none"
    /\ status = 0
    /\ cat_files \in CatalogFileSets
    /\ cat_pc = "idle"
    /\ registry = EmptyRegistry
    /\ cat_findings = <<>>
    /\ ServicesOff

\* CatalogLoader(rules_dir).load_catalogs(version)
LoadCatalogsStep ==
    /\ cat_pc = "idle"
    /\ \E eorder \in Orders(Present(cat_files.enums)),
          sorder \in Orders(Present(cat_files.specs)) :
          LET r == LoadCatalogs(registry, cat_files, eorder, sorder)
          IN  /\ registry' = r.reg
              /\ cat_findings' = r.findings
    /\ cat_pc' = "loaded"
    /\ UNCHANGED cat_files
    /\ UNCHANGED <<engineVars, serviceVars>>

\* catalog_loader.CatalogLoader(base_path).load_catalogs(version)
LoadCatalogsFileStep ==
    /\ cat_pc = "idle"
    /\ \E eorder \in Orders(Present(cat_files.enums)),
          sorder \in Orders(Present(cat_files.specs)) :
          LET r == CL_LoadCatalogs(cat_files, eorder, sorder)
          IN  IF r.raised
              THEN /\ cat_pc' = "cl_raised"
                   /\ UNCHANGED <<registry, cat_findings>>
              ELSE /\ cat_pc' = "cl_loaded"
                   /\ registry' = r.reg
                   /\ cat_findings' = r.findings
    /\ UNCHANGED cat_files
    /\ UNCHANGED <<engineVars, serviceVars>>

\* the files a second load_catalogs call of the same loader finds: a version
\* that does not exist, or another version with a charge-classes file only
ReloadFileSets == {NoCatalogs, ChargeOnlyCatalogs}

\* a second load_catalogs call on the CatalogLoader of catalogs.py, whose
\* registry is the object created by __init__ and returned by the first call
ReloadCatalogsStep ==
    /\ cat_pc = "loaded"
    /\ \E files \in ReloadFileSets :
       \E eorder \in Orders(Present(files.enums)),
          sorder \in Orders(Present(files.specs)) :
          LET r == LoadCatalogs(registry, files, eorder, sorder)
          IN  /\ cat_files' = files
              /\ registry' = r.reg
              /\ cat_findings' = r.findings
    /\ cat_pc' = "reloaded"
    /\ UNCHANGED <<engineVars, serviceVars>>

\* a second load_catalogs call on the CatalogLoader of catalog_loader.py
ReloadCatalogsFileStep ==
    /\ cat_pc = "cl_loaded"
    /\ \E files \in ReloadFileSets :
       \E eorder \in Orders(Present(files.enums)),
          sorder \in Orders(Present(files.specs)) :
          LET r == CL_LoadCatalogs(files, eorder, sorder)
          IN  /\ cat_files' = files
              /\ registry' = r.reg
              /\ cat_findings' = r.findings
    /\ cat_pc' = "cl_reloaded"
    /\ UNCHANGED <<engineVars, serviceVars>>

NextCatalog ==
    \/ LoadCatalogsStep
    \/ LoadCatalogsFileStep
    \/ ReloadCatalogsStep
    \/ ReloadCatalogsFileStep

SpecCatalog == InitCatalog /\ [][NextCatalog]_vars

(***************************************************************************)
(* Requests on one RequestThrottler                                        *)
(***************************************************************************)
\* the pipeline and the catalog loaders are not in use
PipelineOff ==
    /\ pc = "off"
    /\ profile_name = "default"
    /\ profile_files = [n \in {"default", "custom"} |-> AbsentFile]
    /\ rules = [xsd |-> "missing", sch |-> FALSE, catalogs |-> NoCatalogs]
    /\ profile_config = BuiltinDefault
    /\ levels = <<>>
    /\ request = NoRequest
    /\ results = <<>>
    /\ envelope = NoEnvelope
    /\ escaped = "none"
    /\ status = 0
    /\ cat_files = NoCatFiles
    /\ cat_pc = "off"
    /\ registry = EmptyRegistry
    /\ cat_findings = <<>>

notThrottlerVars == <<engineVars, catalogVars, cacheVars, limiterVars, healthVars, alertVars>>

InitThrottler ==
    /\ PipelineOff
    /\ AlertsOff
    /\ CacheOff
    /\ LimiterOff
    /\ HealthOff
    /\ throttler = NewThrottler
    /\ thr_pc = [r \in RequestIds |-> "idle"]

\* request r calls acquire: "async with self._lock" is entered at once when
\* the lock is free, and waits for it otherwise
Acquire(r) ==
    /\ thr_pc[r] = "idle"
    /\ IF throttler.lock = 0
       THEN AcquireBody(r)
       ELSE /\ thr_pc' = [thr_pc EXCEPT ![r] = "acquire_lock"]
            /\ UNCHANGED throttler
    /\ UNCHANGED notThrottlerVars

\* the lock is handed to request r, which waited for it in acquire
AcquireLocked(r) ==
    /\ thr_pc[r] = "acquire_lock"
    /\ throttler.lock = 0
    /\ AcquireBody(r)
    /\ UNCHANGED notThrottlerVars

\* the wait_for of request r ends: with the put when the queue has space,
\* with TimeoutError after queue_timeout otherwise; acquire leaves the lock
PutWaitEnds(r) ==
    /\ thr_pc[r] = "put_wait"
    /\ IF Len(throttler.request_queue) < MaxQueueSize
       THEN /\ throttler' = [throttler EXCEPT !.request_queue = Append(@, r), !.lock = 0]
            /\ thr_pc' = [thr_pc EXCEPT ![r] = "granted"]
       ELSE /\ throttler' = [throttler EXCEPT !.lock = 0]
            /\ thr_pc' = [thr_pc EXCEPT ![r] = "throttled"]
    /\ UNCHANGED notThrottlerVars

\* request r, for which acquire returned True, calls release
Release(r) ==
    /\ thr_pc[r] = "granted"
    /\ IF throttler.lock = 0
       THEN ReleaseBody(r)
       ELSE /\ thr_pc' = [thr_pc EXCEPT ![r] = "release_lock"]
            /\ UNCHANGED throttler
    /\ UNCHANGED notThrottlerVars

\* the lock is handed to request r, which waited for it in release
ReleaseLocked(r) ==
    /\ thr_pc[r] = "release_lock"
    /\ throttler.lock = 0
    /\ ReleaseBody(r)
    /\ UNCHANGED notThrottlerVars

\* the client of a throttled request sends it again
Retry(r) ==
    /\ thr_pc[r] = "throttled"
    /\ thr_pc' = [thr_pc EXCEPT ![r] = "idle"]
    /\ UNCHANGED throttler
    /\ UNCHANGED notThrottlerVars

NextThrottler ==
    \E r \in RequestIds :
        \/ Acquire(r)
        \/ AcquireLocked(r)
        \/ PutWaitEnds(r)
        \/ Release(r)
        \/ ReleaseLocked(r)
        \/ Retry(r)

SpecThrottler == InitThrottler /\ [][NextThrottler]_vars

(***************************************************************************)
(* Calls on one CacheManager                                               *)
(***************************************************************************)
notCacheVars == <<engineVars, catalogVars, throttlerVars, limiterVars, healthVars, alertVars>>

InitCache ==
    /\ PipelineOff
    /\ AlertsOff
    /\ ThrottlerOff
    /\ LimiterOff
    /\ HealthOff
    /\ \E with_redis \in BOOLEAN : cache = NewCache(with_redis)
    /\ cache_hist = NewCacheHist

\* await cache.set(prefix, key, value)
CacheSet ==
    /\ \E ck \in CacheKeys, v \in CacheValues :
          /\ cache' = CacheSetValue(cache, ck, v)
          /\ cache_hist' = [cache_hist EXCEPT !.latest[ck] = v]
    /\ UNCHANGED notCacheVars

\* await cache.delete(prefix, key)
CacheDelete ==
    /\ \E ck \in CacheKeys :
          /\ cache' = CacheRemove(cache, {ck})
          /\ cache_hist' = [cache_hist EXCEPT !.latest[ck] = "None"]
    /\ UNCHANGED notCacheVars

\* await cache.clear(prefix) and await cache.clear()
CacheClear ==
    /\ \E prefix \in CachePrefixes \cup {""} :
          /\ cache' = CacheRemove(cache, Covered(prefix))
          /\ cache_hist' =
                [cache_hist EXCEPT !.latest =
                    [ck \in CacheKeys |->
                        IF ck \in Covered(prefix) THEN "None" ELSE @[ck]]]
    /\ UNCHANGED notCacheVars

\* await cache.get(prefix, key)
CacheGet ==
    /\ \E ck \in CacheKeys :
          cache_hist' = [cache_hist EXCEPT
                            !.got = [called |-> TRUE,
                                     value |-> CacheGetValue(cache, ck),
                                     latest |-> cache_hist.latest[ck]]]
    /\ UNCHANGED cache
    /\ UNCHANGED notCacheVars

\* between two calls the Redis server stops answering, or answers again
RedisChanges ==
    /\ cache.redis_client
    /\ cache' = [cache EXCEPT !.redis_up = ~@]
    /\ UNCHANGED cache_hist
    /\ UNCHANGED notCacheVars

NextCache == CacheSet \/ CacheDelete \/ CacheClear \/ CacheGet \/ RedisChanges

SpecCache == InitCache /\ [][NextCache]_vars

(***************************************************************************)
(* Requests of several clients on one ClientRateLimiter, no time passing   *)
(***************************************************************************)
notLimiterVars == <<engineVars, catalogVars, throttlerVars, cacheVars, healthVars, alertVars>>

InitLimiter ==
    /\ PipelineOff
    /\ AlertsOff
    /\ ThrottlerOff
    /\ CacheOff
    /\ HealthOff
    /\ limiter = <<>>
    /\ limiter_hist = NewLimiterHist

\* await limiter.is_allowed(client_id), the whole call under self._lock
IsAllowed(client_id) ==
    /\ limiter_hist.calls < MaxCalls
    /\ LET clients == WithClient(limiter, client_id)
           allowed == RateLimiterAllows(TokensOf(clients, client_id))
       IN  /\ limiter' = ChargeClient(clients, client_id)
           /\ limiter_hist' =
                 [calls |-> limiter_hist.calls + 1,
                  allowed |-> [limiter_hist.allowed EXCEPT
                                  ![client_id] = IF allowed THEN @ + 1 ELSE @]]
    /\ UNCHANGED notLimiterVars

NextLimiter == \E client_id \in ClientIds : IsAllowed(client_id)

SpecLimiter == InitLimiter /\ [][NextLimiter]_vars

(***************************************************************************)
(* Health requests on the global HealthChecker                             *)
(***************************************************************************)
notHealthVars == <<engineVars, catalogVars, throttlerVars, cacheVars, limiterVars, alertVars>>

InitHealth ==
    /\ PipelineOff
    /\ AlertsOff
    /\ ThrottlerOff
    /\ CacheOff
    /\ LimiterOff
    /\ health = NewHealth
    /\ health_out = NewHealthOut

\* await check_system_health(checks), while the check functions behave as
\* outcome says: 503 when check_health answers overall_healthy False
CheckSystemHealth ==
    /\ \E requested \in (SUBSET CheckNames) \ {{}}, outcome \in [HealthChecks -> CheckOutcomes] :
          LET r == CheckHealth(health, requested, outcome)
          IN  /\ health' = [health EXCEPT !.last_check_time = r.last_check_time]
              /\ health_out' =
                    [called |-> TRUE, requested |-> requested, outcome |-> outcome,
                     checks |-> r.checks, overall_healthy |-> r.overall_healthy,
                     raised |-> IF r.overall_healthy THEN 0 ELSE 503]
    /\ UNCHANGED notHealthVars

\* 15 seconds pass
TimePasses ==
    /\ health.now < MaxTime
    /\ health' = [health EXCEPT !.now = @ + 1]
    /\ UNCHANGED health_out
    /\ UNCHANGED notHealthVars

NextHealth == CheckSystemHealth \/ TimePasses

SpecHealth == InitHealth /\ [][NextHealth]_vars

(***************************************************************************)
(* Triggers and resolutions on one AlertManager                            *)
(***************************************************************************)
notAlertVars == <<engineVars, catalogVars, throttlerVars, cacheVars, limiterVars,
                  healthVars>>

InitAlerts ==
    /\ PipelineOff
    /\ ThrottlerOff
    /\ CacheOff
    /\ LimiterOff
    /\ HealthOff
    /\ alerts = NewAlerts
    /\ alert_out = NewAlertOut

\* check_alerts with a metric over its threshold: _create_alert(alert_type, ...)
CreateAlert(t) ==
    /\ Len(alerts.history) < MaxAlerts
    /\ alerts' = CreateAlertOn(alerts, t)
    /\ alert_out' = [op |-> "trigger", alert_type |-> t,
                     in_cooldown |-> InCooldown(alerts, t),
                     history_len |-> Len(alerts.history)]
    /\ UNCHANGED notAlertVars

\* await manager.resolve_alert(alert_type)
ResolveAlert(t) ==
    /\ alerts' = ResolveAlertOn(alerts, t)
    /\ alert_out' = [op |-> "resolve", alert_type |-> t,
                     in_cooldown |-> InCooldown(alerts, t),
                     history_len |-> Len(alerts.history)]
    /\ UNCHANGED notAlertVars

\* 150 seconds pass
AlertTimePasses ==
    /\ alerts.now < MaxAlertTime
    /\ alerts' = [alerts EXCEPT !.now = @ + 1]
    /\ UNCHANGED alert_out
    /\ UNCHANGED notAlertVars

NextAlerts ==
    \/ \E t \in AlertTypes : CreateAlert(t)
    \/ \E t \in AlertTypes : ResolveAlert(t)
    \/ AlertTimePasses

SpecAlerts == InitAlerts /\ [][NextAlerts]_vars

(***************************************************************************)
(* Properties of the run                                                   *)
(***************************************************************************)
Ran == pc \in {"validated", "done"}

Requested == RequestedLevels(profile_config, request)

\* requested level i is registered and its validate call returns
Returned(i) == Requested[i] \in Range(levels) /\ Requested[i] \notin request.raises

\* C1: validate returns one result per requested stage, in request order; a
\* stage whose validate call raised has exactly one finding, ENGINE:LEVEL_CRASH
\* with severity error, naming the stage; every other stage has the result it
\* has in the run where no stage raises.
C1_CrashIsolated ==
    Ran =>
      LET clean == Validate(profile_config, levels, [request EXCEPT !.raises = {}], rules)
      IN  /\ Len(results) = Len(Requested)
          /\ \A i \in 1..Len(Requested) :
                /\ results[i].level = Requested[i]
                /\ Requested[i] \in request.raises =>
                      /\ Len(results[i].findings) = 1
                      /\ results[i].findings[1].code = "ENGINE:LEVEL_CRASH"
                      /\ results[i].findings[1].level = "error"
                      /\ results[i].findings[1].rule_ref = "internal://" \o Requested[i]
                /\ Requested[i] \notin request.raises => results[i] = clean[i]

\* a stage raised and a later registered stage returned findings of its own
C1_Witness ==
    /\ pc = "validated"
    /\ \E i, j \in 1..Len(results) :
          /\ i < j
          /\ Requested[i] \in request.raises
          /\ Returned(j)
          /\ results[j].findings # <<>>

\* C2: no exception reaches the caller of the engine and build_v1_envelope;
\* every finished run holds an envelope.
C2_NoExceptionEscapes ==
    pc = "done" => escaped = "none" /\ envelope.kind # "none"

\* C3: in every envelope, errors is the number of findings of severity error
\* and valid holds exactly when errors is 0.
C3_SummaryMatchesFindings ==
    envelope.kind # "none" =>
      /\ envelope.errors =
            Cardinality({i \in DOMAIN envelope.findings : envelope.findings[i].level = "error"})
      /\ envelope.valid = (envelope.errors = 0)

\* an envelope built from stage results that holds errors and other findings
C3_Witness ==
    /\ envelope.kind = "v1"
    /\ envelope.errors >= 1
    /\ envelope.errors < Len(envelope.findings)

\* C4: levels_executed holds exactly the profile's enabled stages that are
\* registered, each once; an enabled stage that is not registered is absent.
C4_ExecutedIsEnabledAndRegistered ==
    (envelope.kind = "v1" /\ ~request.levels_given) =>
      LET ex == envelope.levels_executed
      IN  /\ Range(ex) = Range(profile_config.enabled_levels) \cap Range(levels)
          /\ \A i, j \in DOMAIN ex : ex[i] = ex[j] => i = j

\* C5: a requested stage that is not registered gets one result with the single
\* finding ENGINE:RULES_MISSING of severity warning, and the stages after it
\* still run.
C5_MissingLevelReported ==
    Ran =>
      /\ Len(results) = Len(Requested)
      /\ \A i \in 1..Len(Requested) :
            Requested[i] \notin Range(levels) =>
               /\ results[i].level = Requested[i]
               /\ Len(results[i].findings) = 1
               /\ results[i].findings[1].code = "ENGINE:RULES_MISSING"
               /\ results[i].findings[1].level = "warning"
               /\ \A j \in (i + 1)..Len(Requested) :
                     Returned(j) =>
                        results[j].findings =
                           ApplySeverityOverrides(profile_config,
                                                  RunLevel(Requested[j], request, rules).findings)

\* a missing stage is followed by a registered stage that returned findings
C5_Witness ==
    /\ pc = "validated"
    /\ \E i, j \in 1..Len(results) :
          /\ i < j
          /\ Requested[i] \notin Range(levels)
          /\ Returned(j)
          /\ results[j].findings # <<>>

\* C6: the overrides change nothing but the severity of the findings whose
\* code is a key of the map: number, order, code, message, location and rule
\* reference stay, and a finding with another code is unchanged.
C6_OverridesOnlySeverity ==
    Ran =>
      \A i \in 1..Len(Requested) :
         Returned(i) =>
            LET before == RunLevel(Requested[i], request, rules).findings
                after == results[i].findings
            IN  /\ Len(after) = Len(before)
                /\ \A j \in 1..Len(before) :
                      /\ after[j].code = before[j].code
                      /\ after[j].message = before[j].message
                      /\ after[j].location = before[j].location
                      /\ after[j].rule_ref = before[j].rule_ref
                      /\ before[j].code \notin DOMAIN profile_config.severity_overrides
                            => after[j] = before[j]

\* one result holds a finding whose severity was overridden and one that was not
C6_Witness ==
    /\ pc = "validated"
    /\ \E i \in 1..Len(results) :
          /\ Returned(i)
          /\ \E j, k \in 1..Len(results[i].findings) :
                /\ results[i].findings[j].level #
                      RunLevel(Requested[i], request, rules).findings[j].level
                /\ results[i].findings[k].code \notin DOMAIN profile_config.severity_overrides

\* C7: applying the override map to findings it was already applied to
\* changes nothing.
C7_OverridesIdempotent ==
    Ran =>
      \A i \in 1..Len(Requested) :
         Returned(i) =>
            ApplySeverityOverrides(profile_config, results[i].findings) = results[i].findings

\* a result whose findings had a severity overridden
C7_Witness ==
    /\ pc = "validated"
    /\ \E i \in 1..Len(results) :
          /\ Returned(i)
          /\ results[i].findings # RunLevel(Requested[i], request, rules).findings

\* C8: in every run WellFormed is executed and is the first stage executed.
C8_WellFormedFirst ==
    Ran => /\ results # <<>>
           /\ results[1].level = "WellFormed"

Corrupted(f) ==
    \/ f.state \in {"badjson", "undecodable"}
    \/ f.state = "json" /\ ~f.conforms

CatalogCodes ==
    {"CATALOG:VERSION_NOT_FOUND", "CATALOG:FILE_MISSING", "CATALOG:DIRECTORY_MISSING",
     "CATALOG:INVALID_JSON", "CATALOG:SCHEMA_VALIDATION_ERROR", "CATALOG:DUPLICATE_CODE"}

\* the messages with which _load_enums reports the file enum_name
EnumFileMessages(enum_name) ==
    {"Invalid JSON in " \o enum_name, "Schema validation failed for " \o enum_name,
     "Error loading enum " \o enum_name}

WithoutEnum(files, enum_name) == [files EXCEPT !.enums[enum_name] = AbsentCatalog]

\* C10: with the enum schema in place, every corrupted enum file (unparsable
\* or violating the schema) is reported by load_catalogs with an error finding
\* whose code is a CATALOG:* code, and the registry returned is the one the
\* same files without the corrupted file give, in whatever order glob yields
\* the files.
C10_CorruptedEnumFileIsolated ==
    (cat_pc = "loaded" /\ cat_files.version_dir /\ cat_files.enum_schema = "ok") =>
        \A e \in EnumNames :
            Corrupted(cat_files.enums[e]) =>
                /\ \E i \in DOMAIN cat_findings :
                      /\ cat_findings[i].level = "error"
                      /\ cat_findings[i].code \in CatalogCodes
                      /\ cat_findings[i].message \in EnumFileMessages(e)
                /\ \A eorder \in Orders(Present(WithoutEnum(cat_files, e).enums)),
                      sorder \in Orders(Present(cat_files.specs)) :
                      registry = LoadCatalogs(EmptyRegistry, WithoutEnum(cat_files, e),
                                              eorder, sorder).reg

\* the positions of the entries that are the first with their code
FirstPositions(entries) ==
    {i \in DOMAIN entries : \A j \in 1..(i - 1) : entries[j].code # entries[i].code}

\* for each code of entries, the first entry that has it
FirstByCode(entries) ==
    [c \in {entries[i].code : i \in DOMAIN entries} |->
        entries[CHOOSE i \in FirstPositions(entries) : entries[i].code = c]]

\* one CATALOG:DUPLICATE_CODE error with the message prefix \o code for each
\* entry that repeats a code, and no other
DuplicatesReported(entries, prefix) ==
    \A c \in {entries[i].code : i \in DOMAIN entries} :
        Cardinality({i \in DOMAIN cat_findings :
                        /\ cat_findings[i].code = "CATALOG:DUPLICATE_CODE"
                        /\ cat_findings[i].level = "error"
                        /\ cat_findings[i].message = prefix \o c})
          = Cardinality({i \in DOMAIN entries \ FirstPositions(entries) :
                            entries[i].code = c})

\* a file the loader reads to its end: JSON, not refused by a schema, every
\* entry with its required keys
Accepted(f, schema) ==
    /\ f.state = "json"
    /\ schema = "ok" => f.conforms
    /\ \A i \in DOMAIN f.entries : f.entries[i].complete

\* C11: for every catalog file either loader reads to its end, the registry
\* holds for each code the first entry with that code and nothing else of the
\* file, and the findings hold exactly one CATALOG:DUPLICATE_CODE error for
\* each later entry that repeats a code.
C11_FirstOccurrenceWins ==
    /\ (cat_pc \in {"loaded", "cl_loaded"} /\ cat_files.version_dir
            /\ Accepted(cat_files.charge, cat_files.charge_schema)
            /\ cat_files.charge_schema # "broken") =>
          /\ registry.charge_classes = FirstByCode(cat_files.charge.entries)
          /\ DuplicatesReported(cat_files.charge.entries, "Duplicate charge class code: ")
    /\ \A n \in EnumNames :
          (cat_pc \in {"loaded", "cl_loaded"} /\ cat_files.enums_dir
              /\ Accepted(cat_files.enums[n], cat_files.enum_schema)
              /\ cat_files.enum_schema # "broken") =>
            /\ n \in DOMAIN registry.enums
            /\ IF cat_pc = "loaded"
               THEN /\ ByCode(registry.enums[n]) = FirstByCode(cat_files.enums[n].entries)
                    /\ Len(registry.enums[n])
                          = Cardinality(FirstPositions(cat_files.enums[n].entries))
               ELSE registry.enums[n] = FirstByCode(cat_files.enums[n].entries)
            /\ DuplicatesReported(cat_files.enums[n].entries,
                                  "Duplicate enum code in " \o n \o ": ")

\* a charge-classes file with a repeated code was loaded: the first entry is in
\* the registry and the repeat was reported
C11_Witness ==
    /\ cat_pc = "loaded"
    /\ cat_files.charge = DuplicateCatalog
    /\ registry.charge_classes["A"].name = "first"
    /\ \E i \in DOMAIN cat_findings :
          cat_findings[i].message = "Duplicate charge class code: A"

\* the four checked fields: the element value, the entries of the matching
\* catalog and the code of the field's finding
CheckedFields(doc, reg) ==
    LET all(seq) == {seq[i] : i \in DOMAIN seq}
        enum(n) == IF n \in DOMAIN reg.enums THEN all(reg.enums[n]) ELSE {}
    IN  {[value |-> doc.charge,
          entries |-> {reg.charge_classes[c] : c \in DOMAIN reg.charge_classes},
          code |-> "SEMANTIC:INVALID_CHARGE_CLASS"],
         [value |-> doc.payment_frequency, entries |-> enum("payment-frequency"),
          code |-> "SEMANTIC:INVALID_PAYMENT_FREQUENCY"],
         [value |-> doc.refundability, entries |-> enum("refundability"),
          code |-> "SEMANTIC:INVALID_REFUNDABILITY"],
         [value |-> doc.term_basis, entries |-> enum("term-basis"),
          code |-> "SEMANTIC:INVALID_TERM_BASIS"]}

\* C12: when the Semantic stage checks a parsed document, each of the four
\* fields whose catalog has entries and whose element has a value gets the
\* field's SEMANTIC:INVALID_* finding exactly when the value is neither a code
\* nor an alias of an entry of that catalog.
C12_AliasesAccepted ==
    Ran =>
      \A i \in 1..Len(Requested) :
         (Requested[i] = "Semantic" /\ Returned(i) /\ request.doc.wellformed) =>
            \A fld \in CheckedFields(request.doc, SemanticLoadCatalogs(rules.catalogs)) :
               (fld.entries # {} /\ fld.value # "") =>
                  ((\E j \in DOMAIN results[i].findings :
                        results[i].findings[j].code = fld.code)
                   <=> fld.value \notin {e.code : e \in fld.entries}
                                          \cup UNION {e.aliases : e \in fld.entries})

\* C13: when the directory of the version does not exist, so that
\* load_catalogs reports CATALOG:VERSION_NOT_FOUND and loads nothing, the
\* Semantic stage returns exactly one finding, ENGINE:RESOURCE_LOAD_FAILED,
\* and no error finding.
C13_ResourceLoadFailed ==
    Ran =>
      \A i \in 1..Len(Requested) :
         (Requested[i] = "Semantic" /\ Returned(i) /\ ~rules.catalogs.version_dir) =>
            /\ Len(results[i].findings) = 1
            /\ results[i].findings[1].code = "ENGINE:RESOURCE_LOAD_FAILED"
            /\ results[i].findings[1].level # "error"

\* C14: the code of every finding a validation path returns, and of every
\* finding in an envelope, is a key of ERROR_CATALOG.
C14_EmittedCodesRegistered ==
    /\ \A i \in DOMAIN results : \A j \in DOMAIN results[i].findings :
          results[i].findings[j].code \in ERROR_CATALOG
    /\ \A j \in DOMAIN envelope.findings : envelope.findings[j].code \in ERROR_CATALOG

\* C15: a run of a document that does not parse, sent as application/xml, in
\* which WellFormed ran and no stage crashed, gives an envelope whose only finding is one
\* WELLFORMED:PARSE_ERROR, with valid false and errors 1.
C15_MalformedOnlyParseError ==
    (/\ pc = "done"
     /\ escaped = "none"
     /\ ~request.doc.wellformed
     /\ request.content_type = "application/xml"
     /\ request.raises = {}
     /\ \E i \in DOMAIN envelope.levels_executed :
            envelope.levels_executed[i] = "WellFormed")
    => /\ Len(envelope.findings) = 1
       /\ envelope.findings[1].code = "WELLFORMED:PARSE_ERROR"
       /\ ~envelope.valid
       /\ envelope.errors = 1

\* C16: a request of the endpoint whose stages ran to the end is answered
\* with status 200 and the envelope of the run: no failure during or after
\* the stages is reported with a non-success status.
C16_CompletedRunAnswersSuccess ==
    (pc = "done" /\ request.source \in {"file", "url"})
    => status = 200 /\ envelope.kind = "v1"

\* C17: after a run, every finding of the returned results whose code is a
\* key of the profile's severity overrides carries the overriding severity,
\* the findings substituted for a crashed or unavailable stage included.
C17_OverridesReachEveryFinding ==
    Ran =>
      \A i \in DOMAIN results : \A j \in DOMAIN results[i].findings :
         results[i].findings[j].code \in DOMAIN profile_config.severity_overrides
            => results[i].findings[j].level =
                  profile_config.severity_overrides[results[i].findings[j].code]

\* the number of findings of the results before result i
RECURSIVE FindingsBefore(_, _)
FindingsBefore(rs, i) ==
    IF i = 1 THEN 0 ELSE FindingsBefore(rs, i - 1) + Len(rs[i - 1].findings)

\* C18: the findings of a built envelope are the findings of the results, in
\* the order of the results and within a result in the order of its findings,
\* none dropped, repeated or moved; levels_executed lists the levels of the
\* results in the same order.
C18_FindingsInStageOrder ==
    (pc = "done" /\ envelope.kind = "v1") =>
      /\ Len(envelope.levels_executed) = Len(results)
      /\ \A i \in DOMAIN results : envelope.levels_executed[i] = results[i].level
      /\ Len(envelope.findings) = FindingsBefore(results, Len(results) + 1)
      /\ \A i \in DOMAIN results : \A j \in DOMAIN results[i].findings :
            LET f == results[i].findings[j]
                d == envelope.findings[FindingsBefore(results, i) + j]
            IN  /\ d.level = f.level
                /\ d.code = f.code
                /\ d.message = f.message
                /\ d.rule_ref = f.rule_ref
                /\ d.location.line = f.location.line
                /\ d.location.column = f.location.column

\* an envelope of three results with findings, the first with a warning
\* followed by an error
C18_Witness ==
    /\ pc = "done"
    /\ envelope.kind = "v1"
    /\ Len(results) >= 3
    /\ Len(results[1].findings) = 2
    /\ results[1].findings[1].level = "warning"
    /\ results[1].findings[2].level = "error"
    /\ results[2].findings # <<>>
    /\ results[3].findings # <<>>
    /\ results[1].findings[1] # results[1].findings[2]

\* the codes with which a loader reports a file it could not read or that its
\* schema refuses
FileFailureCodes == {"CATALOG:INVALID_JSON", "CATALOG:SCHEMA_VALIDATION_ERROR"}

\* the messages with which either loader reports the charge-classes file
ChargeFileMessages ==
    {"Invalid JSON in charge classes file", "Charge classes schema validation failed",
     "Failed to load charge classes"}

\* the messages with which catalog_loader reports the file enum_name
CL_EnumFileMessages(enum_name) ==
    {"Failed to load enum " \o enum_name,
     "Enum " \o enum_name \o " schema validation failed"}

FileFailureReported(messages) ==
    \E i \in DOMAIN cat_findings :
        /\ cat_findings[i].code \in FileFailureCodes
        /\ cat_findings[i].message \in messages

\* C19: after a load by either loader, a catalog file reported with
\* CATALOG:INVALID_JSON or CATALOG:SCHEMA_VALIDATION_ERROR has no entry in the
\* registry returned.
C19_FailedFileSkippedWhole ==
    cat_pc \in {"loaded", "cl_loaded"} =>
        /\ FileFailureReported(ChargeFileMessages)
              => DOMAIN registry.charge_classes = {}
        /\ \A e \in EnumNames :
              FileFailureReported(EnumFileMessages(e) \cup CL_EnumFileMessages(e))
                 => (e \in DOMAIN registry.enums => DOMAIN registry.enums[e] = {})

\* C20: a validate call leaves the entries of the catalog registry and the
\* profile (enabled levels and severity overrides) as they were before it.
C20_StagesLeaveRegistryAndProfile ==
    [][pc = "ready" =>
          /\ registry'.charge_classes = registry.charge_classes
          /\ registry'.enums = registry.enums
          /\ registry'.specializations = registry.specializations
          /\ profile_config' = profile_config]_vars

\* the entries of a registry, without its metadata
RegistryEntries(reg) ==
    [charge_classes |-> reg.charge_classes, enums |-> reg.enums,
     specializations |-> reg.specializations]

\* C21: the registry a second load_catalogs call of a loader returns holds
\* the entries a new loader reads from the files of that call and no other:
\* nothing of the first call stays, and a version that does not exist gives
\* an empty registry.
C21_RegistryOfThisCallOnly ==
    /\ cat_pc = "reloaded" =>
          RegistryEntries(registry) = RegistryEntries(SemanticLoadCatalogs(cat_files))
    /\ cat_pc = "cl_reloaded" =>
          RegistryEntries(registry) =
              RegistryEntries(CL_LoadCatalogs(cat_files, <<>>, <<>>).reg)

\* C22: when the schema file exists and cannot be parsed as a schema, the
\* result of the XSD stage holds a finding XSD:SCHEMA_PARSE_ERROR and no
\* XSD:SCHEMA_MISSING.
C22_BrokenSchemaReported ==
    (Ran /\ rules.xsd = "broken") =>
       \A i \in 1..Len(Requested) :
          (Returned(i) /\ Requested[i] = "XSD") =>
             /\ \E j \in DOMAIN results[i].findings :
                   results[i].findings[j].code = "XSD:SCHEMA_PARSE_ERROR"
             /\ \A j \in DOMAIN results[i].findings :
                   results[i].findings[j].code # "XSD:SCHEMA_MISSING"

\* C23: with a schema loaded, the XSD result of a well-formed document that
\* violates n >= 1 constraints holds exactly n findings XSD:VALIDATION_ERROR,
\* each with a location (line, column, path).
C23_OneFindingPerViolation ==
    (Ran /\ rules.xsd = "ok" /\ request.doc.wellformed /\ request.doc.violations >= 1) =>
       \A i \in 1..Len(Requested) :
          (Returned(i) /\ Requested[i] = "XSD") =>
             /\ Cardinality({j \in DOMAIN results[i].findings :
                               results[i].findings[j].code = "XSD:VALIDATION_ERROR"})
                  = request.doc.violations
             /\ \A j \in DOMAIN results[i].findings :
                   results[i].findings[j].code = "XSD:VALIDATION_ERROR"
                      => results[i].findings[j].location.kind # "None"

\* C24: with Schematron rules present, the Schematron result of a well-formed
\* document holds one SCHEMATRON:RULE_FAILURE finding of severity error for
\* each assertion the document violates, so it is not empty when there is one.
C24_OneFindingPerFailedAssert ==
    (Ran /\ rules.sch /\ request.doc.wellformed /\ request.doc.failed_asserts >= 1) =>
       \A i \in 1..Len(Requested) :
          (Returned(i) /\ Requested[i] = "Schematron") =>
             Cardinality({j \in DOMAIN results[i].findings :
                            /\ results[i].findings[j].code = "SCHEMATRON:RULE_FAILURE"
                            /\ results[i].findings[j].level = "error"})
               = request.doc.failed_asserts

\* the requests for which acquire returned True and release was not called
Admitted == {r \in RequestIds : thr_pc[r] = "granted"}

\* no acquire or release call is under way
ThrottlerQuiet == \A r \in RequestIds : thr_pc[r] \in {"idle", "granted", "throttled"}

\* C25: whenever no call is under way, the number of requests for which
\* acquire returned True and release was not called is at most max_concurrent
\* and equals active_requests.
C25_AdmittedWithinLimit ==
    ThrottlerQuiet =>
        /\ Cardinality(Admitted) <= MaxConcurrent
        /\ throttler.active_requests = Cardinality(Admitted)

\* C26: a release that was called is never kept from the lock by an acquire
\* waiting for space in the full queue.
C26_ReleaseNotBlockedByWaitingAcquire ==
    \A r, w \in RequestIds :
        (thr_pc[r] = "release_lock" /\ thr_pc[w] = "put_wait")
            => throttler.lock # w

\* C27: get returns the value of the latest set of the key, and None when
\* the key was deleted or cleared after it, or never set.
C27_GetReturnsLatestSet ==
    cache_hist.got.called => cache_hist.got.value = cache_hist.got.latest

\* C28: with no time passing no client is allowed more than max_requests
\* requests, at most max_clients clients are tracked, and every tracked
\* client's tokens stay within 0..max_requests.
C28_ClientLimitHolds ==
    /\ \A c \in ClientIds : limiter_hist.allowed[c] <= LimiterMaxRequests
    /\ Len(limiter) <= LimiterMaxClients
    /\ \A i \in 1..Len(limiter) : limiter[i].tokens \in 0..LimiterMaxRequests

\* C29: a requested check whose function answers unhealthy or raises is
\* reported unhealthy, overall_healthy is false and check_system_health
\* raises 503, also within the cache time-to-live of an earlier execution.
C29_UnhealthyCheckReported ==
    health_out.called =>
        \A n \in health_out.requested \cap HealthChecks :
            health_out.outcome[n] # "healthy" =>
                /\ health_out.checks[n] = "unhealthy"
                /\ ~health_out.overall_healthy
                /\ health_out.raised = 503

\* the alerts of the history that resolve_alert resolved
ResolvedInHistory(a) == {i \in 1..Len(a.history) : a.history[i].resolved}

\* C30: at most one active alert per type; a trigger of a type that is
\* active within the cooldown adds nothing to the history; get_alert_stats
\* reports as resolved_alerts the number of alerts of the history that
\* resolve_alert resolved, and total_alerts = active_alerts + resolved_alerts.
C30_AlertBookkeeping ==
    /\ \A t \in AlertTypes :
          Cardinality({i \in ActiveAlerts(alerts) : alerts.history[i].alert_type = t}) <= 1
    /\ (alert_out.op = "trigger" /\ alert_out.in_cooldown)
          => Len(alerts.history) = alert_out.history_len
    /\ AlertStats(alerts).resolved_alerts = Cardinality(ResolvedInHistory(alerts))
    /\ AlertStats(alerts).total_alerts =
          AlertStats(alerts).active_alerts + AlertStats(alerts).resolved_alerts

====
